---- MODULE Spec2Model ----
(***************************************************************************)
(* The job scheduler of services/orchestrator: the job store, the event    *)
(* bus, the progress reporter and the worker loop with its staged          *)
(* pipeline, adapter dispatch and semaphores.                              *)
(*                                                                         *)
(* Spec        the code as it is under src/: the Job dataclass             *)
(*             (scheduler/models.py) has no event_stream attribute, so the *)
(*             reporter raises AttributeError after each store update.     *)
(* SpecStream  the same worker, store, bus and reporter code driven with a *)
(*             Job record that carries event_stream as section 3.1 of the  *)
(*             specification declares it; only with it does the worker     *)
(*             get past its first status report and run adapters.          *)
(* LiveSpec    Spec with weak fairness of the worker task's steps.         *)
(* SpecReports SpecStream's pipeline for one job and its subscriber, with  *)
(*             an adapter that reports progress values in any order.       *)
(* SpecCalls   functions called on their own (plan_stages,                 *)
(*             JobStore.create_job, stable_hash, write_manifest,           *)
(*             build_asset_ref, resolve_output_dir): the argument is drawn *)
(*             in the initial state, the call returns the result.          *)
(* SpecAdapters  SpecStream's pipeline for one job, with adapters free to  *)
(*             return any artifact list.                                   *)
(* SpecQueue   SpecStream's pipeline with two submissions and no           *)
(*             subscriber: the worker task goes from one job to the next.  *)
(* SpecSubmit  Spec with clients that post any payload, accepted or not.   *)
(* SpecProgress  SpecStream's pipeline for one job, with progress numbers  *)
(*             outside the ranges reported and written.                    *)
(* SpecLogs    jobs are submitted and log lines are written to them.       *)
(* SpecSse     Spec with clients that ask for the server-sent events of a  *)
(*             job; SpecSseStream is the same for SpecStream.              *)
(* LiveWs      Spec with WebSocket clients that go away, and weak fairness *)
(*             of the worker task's steps.                                 *)
(* SpecWs      SpecStream's pipeline for one job and a WebSocket handler   *)
(*             that sends its snapshot and subscribes in two steps.        *)
(* SpecPreview SpecStream's pipeline for one job that asks for a preview,  *)
(*             with the preview builder reading the stored artifacts.      *)
(* SpecUpdate  jobs are submitted and JobStore.update_job is called with   *)
(*             keyword arguments in any order.                             *)
(*                                                                         *)
(* Progress values are integers in thousandths (1000 = 1.0).  A timestamp  *)
(* returned by _now() is the record's logical time: the number of status   *)
(* writes applied to the record so far.                                    *)
(***************************************************************************)
EXTENDS Integers, Sequences, FiniteSets, TLC

VARIABLES
    jobs,          \* JobStore._jobs: job_id -> Job record, NoJob when absent
    created,       \* number of Job objects constructed so far (object identity)
    uuids,         \* number of uuid4() values drawn so far
    submitted,     \* history: job_id returned by each successful submission
    cancels,       \* number of cancel_job calls made so far
    manifest,      \* manifest.json of each job directory, NoManifest when absent
    queue,         \* JOB_QUEUE
    subscribers,   \* EventBus._subscribers: job_id -> set of queues
    queues,        \* the asyncio.Queue of each subscriber
    subState,      \* each subscriber: "none", "open" (subscribed) or "closed"
    subJob,        \* the job each subscriber subscribed to
    subStart,      \* history: publish count of the job when the subscriber subscribed
    received,      \* history: stamps of the events each subscriber took from its queue
    pubCount,      \* history: number of publish calls made for each job
    worker,        \* the worker task: pc, job_id, captured job.uir, pipeline index
    thread,        \* the executor thread of asyncio.to_thread: state and result
    pending,       \* coroutines scheduled by run_coroutine_threadsafe, in loop order
    providerSems,  \* _PROVIDER_SEMAPHORES: key -> free permits
    gpuSemaphore,  \* GPU_SEMAPHORE: free permits
    hist,          \* history of the job being processed, for the properties
    call           \* a call of a function made on its own: name, argument, result

\* the state of the service
progVars == << jobs, created, uuids, submitted, cancels, manifest, queue, subscribers,
               queues, subState, subJob, subStart, received, pubCount, worker, thread,
               pending, providerSems, gpuSemaphore, hist >>

vars == << progVars, call >>

-----------------------------------------------------------------------------
(* Bounds of the model *)

MaxSubmits == 2
MaxCancels == 2
MaxReports == 1
MaxSubs == 1
MaxStreamSubmits == 1
MaxStreamCancels == 1
MaxAnyReports == 2
MaxQueueSubmits == 2
MaxLogWrites == 203
MaxUpdates == 2

-----------------------------------------------------------------------------
(* scheduler/models.py *)

JobStatus == { "QUEUED", "PLANNING", "RUNNING_MOTION", "RUNNING_SCENE",
               "RUNNING_MUSIC", "RUNNING_CHARACTER", "COMPOSING_PREVIEW",
               "EXPORTING_VIDEO", "DONE", "FAILED", "CANCELED" }

\* Optional[...]: None, or the value in a one-element sequence
None == << >>
Some(v) == << v >>
NoJob == [absent |-> TRUE]

\* Job(job_id, uir, uir_hash, status=QUEUED, stages): the dataclass has no
\* event_stream field, reading it raises AttributeError.
Job(oid, uir, stages) ==
    [ oid |-> oid, status |-> "QUEUED", stage |-> "QUEUED", progress |-> 0,
      started_at |-> None, ended_at |-> None, clock |-> 0,
      uir |-> uir, stages |-> stages, artifacts |-> << >>, logs |-> << >>,
      event_stream |-> "missing" ]

\* The Job of section 3.1, which lists event_stream (bool) among the attributes.
DeclaredJob(oid, uir, stages) ==
    [ Job(oid, uir, stages) EXCEPT !.event_stream = "true" ]

-----------------------------------------------------------------------------
(* uir/models.py, uir/validate.py, planner/stages.py, planner/planner.py *)

KNOWN_MODULES == << "scene", "motion", "music", "character", "preview", "export" >>

Modalities == { KNOWN_MODULES[i] : i \in 1..Len(KNOWN_MODULES) }

\* A UIR, reduced to what the scheduler reads: intent.targets, the modules
\* with enabled=true, and routing.<modality>.provider where given.
UIR(targets, enabled, routing) ==
    [ targets |-> targets, enabled |-> enabled, routing |-> routing ]

NoRouting == [ m \in {} |-> "" ]

\* an entry of UIRValidationError.errors: loc and type (msg goes with type)
ValidationEntry(loc, type) == [ loc |-> loc, type |-> type ]

\* Mutation of _semantic_errors: the targets are compared after strip() and
\* lower(), as _intent_targets does
_semantic_errors_normalized(uir) ==
    LET Offends(name) ==
            name \in uir.enabled
            /\ name \notin { IF value = " Scene" THEN "scene" ELSE value :
                               value \in uir.targets }
        offending == SelectSeq(KNOWN_MODULES, Offends)
    IN  [ i \in 1..Len(offending) |->
            ValidationEntry(<< "modules", offending[i], "enabled" >>,
                            "value_error.missing_target") ]

\* _semantic_errors: for each name of KNOWN_MODULES, in that order, an error
\* when the module is enabled and the name is not in set(intent.targets)
_semantic_errors(uir) ==
    LET Offends(name) == name \in uir.enabled /\ name \notin uir.targets
        offending == SelectSeq(KNOWN_MODULES, Offends)
    IN  [ i \in 1..Len(offending) |->
            ValidationEntry(<< "modules", offending[i], "enabled" >>,
                            "value_error.missing_target") ]

\* parse_uir: the errors of UIR.parse_obj when it fails (Targets has
\* min_items=1), else the semantic errors when there are any, else the model
parse_uir(uir) ==
    IF uir.targets = {}
    THEN [ ok |-> FALSE,
           errors |-> << ValidationEntry(<< "intent", "targets" >>,
                                         "value_error.list.min_items") >> ]
    ELSE [ ok |-> _semantic_errors(uir) = << >>, errors |-> _semantic_errors(uir) ]

\* parse_uir returns the model
parse_uir_ok(uir) == parse_uir(uir).ok

\* strings intent.targets may hold (Targets: non-empty strings): the module
\* names, and one that is a module name but for case and leading space
TargetStrings == Modalities \cup { " Scene" }

\* str(value).strip().lower()
StripLower(value) == IF value = " Scene" THEN "scene" ELSE value

\* _intent_targets
_intent_targets(uir) == { StripLower(value) : value \in uir.targets }

\* Mutation of _is_module_selected: intent.targets is not looked at
_module_enabled_only(uir, name) == name \in uir.enabled

\* _module_enabled(modules, name) and name in targets
_is_module_selected(uir, name) ==
    name \in uir.enabled /\ name \in _intent_targets(uir)

plan_stages(uir) ==
    LET stageOf == [ scene |-> "RUNNING_SCENE", motion |-> "RUNNING_MOTION",
                     music |-> "RUNNING_MUSIC", character |-> "RUNNING_CHARACTER",
                     preview |-> "COMPOSING_PREVIEW", export |-> "EXPORTING_VIDEO" ]
        Selected(m) == _is_module_selected(uir, m)
        chosen == SelectSeq(KNOWN_MODULES, Selected)
    IN  << "PLANNING" >> \o [ i \in 1..Len(chosen) |-> stageOf[chosen[i]] ]

\* _build_modules: the {prompt, options} form enables exactly the targets
PromptUIR(targets) == UIR(targets, targets, NoRouting)

\* The UIRs a {prompt, options} submission is planned into
PromptUIRs == { PromptUIR({"motion", "preview"}) }

\* job.id values a client puts into a full UIR
ClientIds == { "client-a" }

\* The full UIRs clients submit, with their job.id ("": none)
FullUIRs ==
    { [ id |-> "client-a",
        uir |-> UIR({"scene", "music"}, {"scene"}, [ scene |-> "dummy_scene" ]) ],
      [ id |-> "", uir |-> UIR({"scene"}, {"scene"}, [ scene |-> "nonexistent" ]) ],
      [ id |-> "", uir |-> UIR({"music"}, {"music"}, [ music |-> "dummy_scene" ]) ] }

\* uuid4().hex: the n-th value drawn
UuidHex == << "uuid-1", "uuid-2", "uuid-3", "uuid-4" >>

\* the id plan_uir puts into every UIR it builds (planner.py line 38)
PendingId == "pending"

JobIds == { PendingId } \cup ClientIds \cup { UuidHex[i] : i \in 1..Len(UuidHex) }

Subs == 1..MaxSubs

-----------------------------------------------------------------------------
(* scheduler/store.py *)

_TERMINAL_STATUSES == { "DONE", "FAILED", "CANCELED" }

Min(a, b) == IF a < b THEN a ELSE b
Max(a, b) == IF a > b THEN a ELSE b

\* Mutation of SetStatus: the timestamps are written without the "is None"
\* tests of lines 104 and 106
SetStatusUnguarded(job, value, stageGiven) ==
    LET now == job.clock + 1
    IN  [ job EXCEPT
            !.status = value,
            !.stage = IF stageGiven THEN @ ELSE value,
            !.started_at = IF value # "QUEUED" THEN Some(now) ELSE @,
            !.ended_at = IF value \in _TERMINAL_STATUSES THEN Some(now) ELSE @,
            !.clock = now ]

\* update_job, lines 96-108: the status field.  _now() is the record's
\* logical time after this write.
SetStatus(job, value, stageGiven) ==
    LET now == job.clock + 1
    IN  [ job EXCEPT
            !.status = value,
            !.stage = IF stageGiven THEN @ ELSE value,
            !.started_at = IF @ = None /\ value # "QUEUED" THEN Some(now) ELSE @,
            !.ended_at = IF value \in _TERMINAL_STATUSES /\ @ = None
                         THEN Some(now) ELSE @,
            !.clock = now ]

\* Mutation of SetProgress: the value is stored as it is
SetProgressUnclamped(job, value) == [ job EXCEPT !.progress = value ]

\* update_job, lines 109-112: the progress field is clamped to [0, 1]
SetProgress(job, value) == [ job EXCEPT !.progress = Max(0, Min(1000, value)) ]

\* update_job(job_id, **fields) on the record of an existing job; fields is a
\* record holding some of stage, progress, status, artifacts
update_job(job, fields) ==
    LET has(k) == k \in DOMAIN fields
        j1 == IF has("stage") THEN [ job EXCEPT !.stage = fields.stage ] ELSE job
        j2 == IF has("progress") THEN SetProgress(j1, fields.progress) ELSE j1
        j3 == IF has("status") THEN SetStatus(j2, fields.status, has("stage")) ELSE j2
        j4 == IF has("artifacts") THEN [ j3 EXCEPT !.artifacts = fields.artifacts ] ELSE j3
    IN  j4

\* Mutation of update_job_kwargs: the status is looked at before any field
\* is written
update_job_checked(job, fields) ==
    IF \E i \in DOMAIN fields : fields[i][1] = "status" /\ fields[i][2] \notin JobStatus
    THEN [ job |-> job, raised |-> TRUE ]
    ELSE LET given == [ k \in { fields[i][1] : i \in DOMAIN fields } |->
                          (CHOOSE kv \in { fields[i] : i \in DOMAIN fields } : kv[1] = k)[2] ]
         IN  [ job |-> update_job(job, given), raised |-> FALSE ]

\* update_job(job_id, **fields), lines 94-112, on the record of an existing
\* job, with the keyword arguments in the order they were passed, as
\* << key, value >> pairs: the loop writes field after field into the record
\* and raises ValueError at a status that is no JobStatus value
RECURSIVE ApplyFields(_, _, _)
ApplyFields(job, rest, stageGiven) ==
    IF rest = << >> THEN [ job |-> job, raised |-> FALSE ]
    ELSE LET key == Head(rest)[1]
             value == Head(rest)[2]
         IN  IF key = "status"
             THEN IF value \notin JobStatus THEN [ job |-> job, raised |-> TRUE ]
                  ELSE ApplyFields(SetStatus(job, value, stageGiven), Tail(rest), stageGiven)
             ELSE IF key = "progress"
             THEN ApplyFields(SetProgress(job, value), Tail(rest), stageGiven)
             ELSE IF key = "stage"
             THEN ApplyFields([ job EXCEPT !.stage = value ], Tail(rest), stageGiven)
             ELSE ApplyFields(job, Tail(rest), stageGiven)

update_job_kwargs(job, fields) ==
    ApplyFields(job, fields, \E i \in DOMAIN fields : fields[i][1] = "stage")

\* JobStore(max_log_lines=200), as JOB_STORE is made
_max_log_lines == 200

\* Mutation of append_log: the lines beyond the limit are cut at the end
append_log_keep_oldest(job, line) ==
    LET logs == Append(job.logs, line)
    IN  [ job EXCEPT !.logs = SubSeq(logs, 1, Min(Len(logs), _max_log_lines)) ]

\* append_log(job_id, line): the line is appended, then the overflow is
\* deleted at the head of the list
append_log(job, line) ==
    LET logs == Append(job.logs, line)
        overflow == Len(logs) - _max_log_lines
    IN  [ job EXCEPT !.logs = IF overflow > 0
                              THEN SubSeq(logs, overflow + 1, Len(logs))
                              ELSE logs ]

\* cancel_job: update_job(job_id, status=CANCELED, message=message)
cancel_job(job) == update_job(job, [ status |-> "CANCELED" ])

-----------------------------------------------------------------------------
(* scheduler/reporter.py and scheduler/events.py *)

\* _status_payload(job), with the payload of the status call where given
Event(name, job, payload) ==
    [ event |-> name, status |-> job.status, stage |-> job.stage,
      progress |-> job.progress, payload |-> payload ]

\* payloads are records: none, the stage name an adapter reports
\* (_payload_with_stage), an asset's kind, or an error
NoPayload == [ none |-> TRUE ]
StagePayload == [ stage |-> "step" ]

\* The outcome of reporter calls made in one run of the worker task: the job
\* record as left in the store, the events handed to EventBus.publish in call
\* order, and whether the last call raised.
Effect(job, events, raised) == [ job |-> job, events |-> events, raised |-> raised ]

\* ProgressReporter.status(stage, progress, message, payload) for a JobStatus
ReporterStatus(job, stage, progress, payload) ==
    LET j == update_job(job, [ stage |-> stage, progress |-> progress,
                               status |-> stage ])
        data == Event("status", j, payload)
    IN  IF j.event_stream = "missing"
        THEN Effect(j, << >>, TRUE)            \* _event_stream_enabled raises
        ELSE IF j.event_stream # "true"
        THEN Effect(j, << >>, FALSE)
        ELSE IF j.status = "DONE"
        THEN Effect(j, << data, Event("done", j, payload) >>, FALSE)
        ELSE IF j.status = "FAILED"
        THEN Effect(j, << data, Event("failed", j, payload) >>, FALSE)
        ELSE Effect(j, << data >>, FALSE)

\* JobStore.set_asset(job_id, kind, value, meta) with _assign_asset for a
\* kind "<category>.<field>": the value goes into the dict assets[category],
\* which replaces whatever assets[category] held if that was not a dict.
\* job.artifacts is assets["artifacts"] as _stored_artifacts reads it, so it
\* is empty once set_asset has put a dict in the place of the list; the
\* other entries of assets are not kept.
set_asset(job, kind) ==
    IF kind.category = "artifacts" THEN [ job EXCEPT !.artifacts = << >> ] ELSE job

\* ProgressReporter.asset(kind, url_or_path, meta)
ReporterAsset(job, kind) ==
    LET j == set_asset(job, kind)
    IN  IF j.event_stream = "missing"
        THEN Effect(j, << >>, TRUE)
        ELSE IF j.event_stream # "true"
        THEN Effect(j, << >>, FALSE)
        ELSE Effect(j, << Event("asset", j, [ kind |-> kind ]) >>, FALSE)

\* a reporter call made after the calls of eff; skipped when eff raised
ThenAsset(eff, kind) ==
    IF eff.raised THEN eff
    ELSE LET r == ReporterAsset(eff.job, kind)
         IN  Effect(r.job, eff.events \o r.events, r.raised)

ThenStatus(eff, stage, progress, payload) ==
    IF eff.raised THEN eff
    ELSE LET r == ReporterStatus(eff.job, stage, progress, payload)
         IN  Effect(r.job, eff.events \o r.events, r.raised)

Start(job) == Effect(job, << >>, FALSE)

\* EventBus.publish of the events evs of job id, in call order: each is put
\* (put_nowait, unbounded queue) on the queue of every subscriber of the job.
\* stamp is the position of the publish call among the calls made for the job.
Stamped(evs, from) ==
    [ i \in 1..Len(evs) |-> [ n |-> from + i, event |-> evs[i] ] ]

\* Mutation of PutNowait: the events are put at the head of the queue
PutFront(q, evs) == evs \o q

PutNowait(q, evs) == q \o evs

publish(id, evs) ==
    /\ queues' = [ s \in Subs |->
                     IF id \in DOMAIN subscribers /\ s \in subscribers[id]
                     THEN PutNowait(queues[s], Stamped(evs, pubCount[id]))
                     ELSE queues[s] ]
    /\ pubCount' = [ pubCount EXCEPT ![id] = @ + Len(evs) ]

-----------------------------------------------------------------------------
(* scheduler/worker.py: tables *)

\* _PIPELINE: (stage, progress_range); the simulated duration is not used
_PIPELINE ==
    << [ stage |-> "PLANNING",          start |-> 0,   end |-> 100 ],
       [ stage |-> "RUNNING_MOTION",    start |-> 100, end |-> 350 ],
       [ stage |-> "RUNNING_SCENE",     start |-> 350, end |-> 550 ],
       [ stage |-> "RUNNING_MUSIC",     start |-> 550, end |-> 700 ],
       [ stage |-> "RUNNING_CHARACTER", start |-> 700, end |-> 780 ],
       [ stage |-> "COMPOSING_PREVIEW", start |-> 780, end |-> 900 ],
       [ stage |-> "EXPORTING_VIDEO",   start |-> 900, end |-> 990 ] >>

\* _STAGE_MODALITY; PLANNING has none
_STAGE_MODALITY ==
    [ RUNNING_MOTION |-> "motion", RUNNING_SCENE |-> "scene",
      RUNNING_MUSIC |-> "music", RUNNING_CHARACTER |-> "character",
      COMPOSING_PREVIEW |-> "preview", EXPORTING_VIDEO |-> "export" ]

_DEFAULT_PROVIDERS ==
    [ scene |-> "diffusion360_local", motion |-> "animationgpt_local",
      music |-> "musicgpt_cli", character |-> "builtin_library",
      preview |-> "web_threejs", export |-> "ffmpeg_export" ]

_GPU_STAGES == { "RUNNING_MOTION", "RUNNING_SCENE", "RUNNING_MUSIC",
                 "COMPOSING_PREVIEW", "EXPORTING_VIDEO" }

\* adapters/registry.py _register_defaults: provider_id -> adapter
\* (modality and max_concurrency as the adapter classes declare them)
Adapter(modality) == [ modality |-> modality, max_concurrency |-> 1 ]

_REGISTRY ==
    [ dummy |-> Adapter("scene"), animationgpt_local |-> Adapter("motion"),
      builtin_library |-> Adapter("character"), web_threejs |-> Adapter("preview"),
      musicgpt_cli |-> Adapter("music"), diffusion360_local |-> Adapter("scene"),
      ffmpeg_export |-> Adapter("export"), dummy_scene |-> Adapter("scene"),
      dummy_music |-> Adapter("music") ]

\* _resolve_provider_id
_resolve_provider_id(uir, modality) ==
    IF modality \in DOMAIN uir.routing
    THEN uir.routing[modality]
    ELSE _DEFAULT_PROVIDERS[modality]

\* _modality_requested: intent.targets is always a list in a parsed UIR
_modality_requested(uir, modality) == modality \in uir.targets

\* _max_concurrency
_max_concurrency(adapter) ==
    IF adapter.max_concurrency < 1 THEN 1 ELSE adapter.max_concurrency

\* _normalize_progress of a number (in thousandths)
_normalize_progress(value) ==
    LET progress == IF value > 1000 THEN value \div 100 ELSE value
    IN  Max(0, Min(1000, progress))

\* _AdapterReporter.stage: the overall progress of an adapter report
Overall(band, progress) ==
    band.start + ((band.end - band.start) * _normalize_progress(progress)) \div 1000

\* the progress values adapters report (adapters/*.py reporter.stage calls)
AdapterProgress == { 200 }

\* progress values an adapter registered under the ModelAdapter protocol may
\* pass to reporter.stage, in any order
AnyProgress == { 200, 700 }

\* numbers outside [0, 1] and [0, 100]: -0.5, 1.5 and 250
WildProgress == { -500, 1500, 250000 }

\* the artifact an adapter of the modality returns with ok=true
RoleOf ==
    [ scene |-> "scene_panorama", motion |-> "motion_bvh", music |-> "music_wav",
      character |-> "character_manifest", preview |-> "preview_config",
      export |-> "export_mp4" ]

\* an AssetRef (build_asset_ref), reduced to its role, the stage that
\* returned it, and whether the file its uri names is in the job directory;
\* build_asset_ref does not ask for the file to exist, and nothing under
\* src/ removes an artifact's file.  It has a uri and no "output" key.
AssetRef(role, idx, file) ==
    [ role |-> role, stage |-> idx, file |-> file, uri |-> TRUE, output |-> "" ]

Artifact(modality, idx) == AssetRef(RoleOf[modality], idx, TRUE)

\* _asset_type_from_role: role.split("_", 1)[0], for the roles in use
_asset_type_from_role ==
    [ scene_panorama |-> "scene", motion_bvh |-> "motion", music_wav |-> "music",
      character_manifest |-> "character", preview_config |-> "preview",
      export_mp4 |-> "export", artifacts_index |-> "artifacts" ]

\* _asset_kind(asset_type, role): "<asset_type>.<role>"
_asset_kind(asset_type, role) == [ category |-> asset_type, field |-> role ]

\* adapters/base.py build_error(code, message, detail, retryable)
NoDetail == << >>
build_error(code, message, detail, retryable) ==
    [ code |-> code, message |-> message, detail |-> detail, retryable |-> retryable ]

\* str(exc) of the exceptions adapter.validate and adapter.run raise
Exceptions == { "boom" }

\* Mutation of _normalize_error: the adapter's error is dropped
_fallback_error(error, fallback) == fallback

\* _normalize_error(error, fallback) for an error that is a dict: a key that
\* is absent or holds an empty value is taken from the fallback, detail is
\* kept when it is a dict and {} otherwise
_normalize_error(error, fallback) ==
    LET Given(k) == k \in DOMAIN error
    IN  [ code |-> IF Given("code") /\ error.code # "" THEN error.code
                   ELSE fallback.code,
          message |-> IF Given("message") /\ error.message # "" THEN error.message
                      ELSE fallback.message,
          detail |-> IF Given("detail") THEN error.detail ELSE NoDetail,
          retryable |-> IF Given("retryable") THEN error.retryable
                        ELSE fallback.retryable ]

\* _result_error(result, provider_id); result.error is None when has_error
\* is FALSE.  The fallback message stands for "adapter returned ok=false:
\* <provider_id>".
_result_error(result, provider_id) ==
    LET fallback == build_error("E_MODEL_RUNTIME", "adapter returned ok=false",
                                [ provider_id |-> provider_id ], TRUE)
    IN  IF result.has_error THEN _normalize_error(result.error, fallback)
        ELSE fallback

\* the errors adapters put into a result with ok=false
AdapterErrors ==
    { [ code |-> "E_CUSTOM", message |-> "custom", detail |-> [ why |-> "x" ],
        retryable |-> FALSE ],
      [ code |-> "E_CUSTOM" ] }

\* AdapterResult: ok, artifacts, error
Result(ok, artifacts, has_error, error) ==
    [ ok |-> ok, artifacts |-> artifacts, has_error |-> has_error, error |-> error ]

NoResult == Result(FALSE, << >>, FALSE, << >>)

\* the results adapter.run returns for the stage at idx
AdapterResults(modality, idx) ==
    { Result(TRUE, << Artifact(modality, idx) >>, FALSE, << >>),
      Result(FALSE, << Artifact(modality, idx) >>, FALSE, << >>) }
    \cup { Result(FALSE, << >>, TRUE, e) : e \in AdapterErrors }

\* results an adapter registered under the ModelAdapter protocol may return
\* with ok=true: the artifact of the stage; an artifact whose file the
\* adapter did not write; an artifact with a role of the adapter's own
AnyResults(modality, idx) ==
    { Result(TRUE, << Artifact(modality, idx) >>, FALSE, << >>),
      Result(TRUE, << AssetRef(RoleOf[modality], idx, FALSE) >>, FALSE, << >>),
      Result(TRUE, << AssetRef("artifacts_index", idx, TRUE) >>, FALSE, << >>) }

\* _result_ok, _result_artifacts
_result_ok(result) == result.ok
_result_artifacts(result) == result.artifacts

\* _emit_asset_events(reporter, artifacts) after the reporter calls of eff
RECURSIVE _emit_asset_events(_, _)
_emit_asset_events(eff, artifacts) ==
    IF artifacts = << >> THEN eff
    ELSE LET role == Head(artifacts).role
             kind == _asset_kind(_asset_type_from_role[role], role)
         IN  _emit_asset_events(ThenAsset(eff, kind), Tail(artifacts))

\* Mutation of _store_artifacts: the artifacts of the stage are not stored
_store_nothing(job, artifacts) == job

\* _stored_artifacts(job), and _store_artifacts(store, job_id, artifacts)
_stored_artifacts(job) == job.artifacts

_store_artifacts(job, artifacts) ==
    IF artifacts = << >> THEN job
    ELSE update_job(job, [ artifacts |-> _stored_artifacts(job) \o artifacts ])

\* adapters/preview.py _load_artifacts(job_id): job.assets["artifacts"]
_load_artifacts(job) == IF job = NoJob THEN << >> ELSE _stored_artifacts(job)

\* adapters/preview.py _find_artifact(artifacts, role): the first artifact
\* with the role, or None
_find_artifact(artifacts, role) ==
    LET hits == { i \in DOMAIN artifacts : artifacts[i].role = role }
    IN  IF hits = {} THEN None
        ELSE Some(artifacts[CHOOSE i \in hits : \A j \in hits : i <= j])

\* the uri string of an AssetRef: build_asset_ref makes it of the directory
\* of the stage and the file of the role
Uri(artifact) == [ stage |-> artifact.stage, role |-> artifact.role ]

\* the empty string, where a uri is expected
NoUri == [ stage |-> 0, role |-> "" ]

\* adapters/preview.py _artifact_uri(artifact): empty for None and for an
\* artifact without a uri
_artifact_uri(artifact) ==
    IF artifact = None \/ ~artifact[1].uri THEN NoUri ELSE Uri(artifact[1])

\* adapters/preview.py PreviewConfigBuilder.run on a writable job directory:
\* E_DEPENDENCY_MISSING without a motion_bvh uri, else the config written to
\* preview_config.json and the warnings; valid tells whether
\* character/character_manifest.json holds a model_uri or a skeleton
PreviewRun(artifacts, valid) ==
    LET motion_uri == _artifact_uri(_find_artifact(artifacts, "motion_bvh"))
        scene_uri == _artifact_uri(_find_artifact(artifacts, "scene_panorama"))
        music_uri == _artifact_uri(_find_artifact(artifacts, "music_wav"))
        character == _find_artifact(artifacts, "character_manifest")
        warnings ==
            ( IF scene_uri = NoUri THEN { "scene_panorama missing" } ELSE {} )
            \cup ( IF music_uri = NoUri THEN { "music_wav missing" } ELSE {} )
            \cup ( IF character = None THEN { "character_manifest missing" }
                   ELSE IF ~valid THEN { "character_manifest invalid" } ELSE {} )
    IN  IF motion_uri = NoUri
        THEN [ ok |-> FALSE, warnings |-> {}, config |-> << >>,
               error |-> build_error("E_DEPENDENCY_MISSING", "missing required artifacts",
                                     [ missing |-> << "motion_bvh" >> ], FALSE) ]
        ELSE [ ok |-> TRUE, warnings |-> warnings,
               config |-> [ scene |-> scene_uri, motion |-> motion_uri,
                            music |-> music_uri ],
               error |-> << >> ]

\* _is_canceled
_is_canceled(job) == job = NoJob \/ job.status = "CANCELED"

\* storage/manifest.py _ROLE_OUTPUT_MAP, for the roles in use
_ROLE_OUTPUT_MAP ==
    [ scene_panorama |-> "scene.panorama", motion_bvh |-> "motion.bvh",
      music_wav |-> "music.wav", preview_config |-> "preview.config",
      export_zip |-> "export.zip", export_mp4 |-> "export.mp4",
      character_manifest |-> "character.manifest" ]

\* _DEFAULT_OUTPUTS: the slots of the skeleton, each None
_DEFAULT_OUTPUTS ==
    { "scene.panorama", "motion.bvh", "music.wav", "preview.config", "export.zip",
      "export.mp4" }

\* _artifact_output_key: the artifact's "output" (or "output_key") when it
\* has one, else the slot of its role; "" stands for None
_artifact_output_key(artifact) ==
    IF artifact.output # "" THEN artifact.output
    ELSE IF artifact.role \in DOMAIN _ROLE_OUTPUT_MAP
    THEN _ROLE_OUTPUT_MAP[artifact.role] ELSE ""

\* _apply_artifacts(outputs, artifacts): each artifact that has an output
\* key and a uri (_artifact_payload) is put into its slot, a later one
\* replacing an earlier one; the result is the slots that hold an artifact
_apply_artifacts(artifacts) ==
    LET Slot(i) == _artifact_output_key(artifacts[i])
        Slotted == { i \in DOMAIN artifacts : Slot(i) # "" /\ artifacts[i].uri }
        Last == { i \in Slotted : \A j \in Slotted : j > i => Slot(j) # Slot(i) }
    IN  { [ slot |-> Slot(i), artifact |-> artifacts[i] ] : i \in Last }

\* write_manifest(job_dir, uir, status, artifacts, errors): the dict it
\* returns; outputs maps the slots of the skeleton and the slots that were
\* assigned to the artifact put there, or to None
write_manifest(status, artifacts, errors) ==
    LET applied == _apply_artifacts(artifacts)
        slots == _DEFAULT_OUTPUTS \cup { a.slot : a \in applied }
    IN  [ job_id |-> "job_123", uir_version |-> "1.0", created_at |-> "2025-01-01",
          status |-> status, inputs |-> [ raw_prompt |-> "a dance" ],
          outputs |-> [ slot \in slots |->
                          IF \E a \in applied : a.slot = slot
                          THEN Some((CHOOSE a \in applied : a.slot = slot).artifact)
                          ELSE None ],
          errors |-> errors ]

\* write_manifest(job_dir, uir, status, artifacts, errors), reduced to the
\* status, the artifacts placed in outputs and the errors
Manifest(status, artifacts, errors) ==
    [ status |-> status, artifacts |-> artifacts, errors |-> errors,
      outputs |-> _apply_artifacts(artifacts) ]

-----------------------------------------------------------------------------
(* Initial state: module load of store.py, events.py and worker.py *)

NoUIR == UIR({}, {}, NoRouting)
NoManifest == [ absent |-> TRUE ]

Idle == [ pc |-> "idle", id |-> "", oid |-> 0, uir |-> NoUIR, idx |-> 0 ]
NoThread == [ state |-> "idle", outcome |-> "", result |-> NoResult, exc |-> "",
              reports |-> 0 ]

\* a call of a function: not returned yet
Call(fn, arg) == [ fn |-> fn, arg |-> arg, done |-> FALSE, ret |-> << >> ]
NoCall == Call("none", << >>)

InitService ==
    /\ jobs = [ id \in JobIds |-> NoJob ]
    /\ created = 0
    /\ uuids = 0
    /\ submitted = << >>
    /\ cancels = 0
    /\ manifest = [ id \in JobIds |-> NoManifest ]
    /\ queue = << >>
    /\ subscribers = [ id \in {} |-> {} ]
    /\ queues = [ s \in Subs |-> << >> ]
    /\ subState = [ s \in Subs |-> "none" ]
    /\ subJob = [ s \in Subs |-> "" ]
    /\ subStart = [ s \in Subs |-> 0 ]
    /\ received = [ s \in Subs |-> << >> ]
    /\ pubCount = [ id \in JobIds |-> 0 ]
    /\ worker = Idle
    /\ thread = NoThread
    /\ pending = << >>
    /\ providerSems = [ k \in {} |-> 0 ]
    /\ gpuSemaphore = 1
    /\ hist = [ dequeued |-> {}, canceled |-> {}, midCancel |-> {}, unhappy |-> {},
                invalid |-> {}, taken |-> << >>,
                lines |-> [ oid \in {} |-> 0 ],
                preview |-> [ oid \in {} |-> << >> ] ]

Init == InitService /\ call = NoCall

busVars == << subscribers, queues, subState, subJob, subStart, received, pubCount >>
semVars == << providerSems, gpuSemaphore >>
clientVars == << created, uuids, submitted, cancels, call >>

\* the server is up: the lifespan has not cancelled the worker task
Serving == worker.pc # "cancelled"

-----------------------------------------------------------------------------
(* Clients: api/jobs.py, api/ws.py, and callers of JobStore.cancel_job *)

\* Mutation of enqueue_job: the id is put at the head of the queue
enqueue_first(q, job_id) == << job_id >> \o q

\* enqueue_job(job_id): JOB_QUEUE.put on a queue without a size limit
enqueue_job(q, job_id) == Append(q, job_id)

\* JobStore.create_job for a UIR that parses, then enqueue_job(job.job_id).
\* supplied is the job.id of the payload, "" when it has none; declared tells
\* whether the record carries event_stream.
create_job(supplied, uir, declared) ==
    LET job_id == IF supplied # "" THEN supplied ELSE UuidHex[uuids + 1]
        job == IF declared THEN DeclaredJob(created + 1, uir, plan_stages(uir))
               ELSE Job(created + 1, uir, plan_stages(uir))
    IN  /\ parse_uir_ok(uir)
        /\ jobs' = [ jobs EXCEPT ![job_id] = job ]
        /\ manifest' = [ manifest EXCEPT ![job_id] = Manifest("QUEUED", << >>, << >>) ]
        /\ created' = created + 1
        /\ uuids' = IF supplied # "" THEN uuids ELSE uuids + 1
        /\ queue' = enqueue_job(queue, job_id)
        /\ submitted' = Append(submitted, job_id)

\* POST /jobs: plan_uir gives a {prompt, options} payload the id "pending"
\* and returns a full UIR as it is
Submit(declared, limit) ==
    /\ Serving
    /\ Len(submitted) < limit
    /\ \E form \in { "prompt", "uir" } :
         IF form = "prompt"
         THEN \E uir \in PromptUIRs : create_job(PendingId, uir, declared)
         ELSE \E full \in FullUIRs : create_job(full.id, full.uir, declared)
    /\ UNCHANGED << cancels, busVars, worker, thread, pending, semVars, hist, call >>

SubmitJob == Submit(FALSE, MaxSubmits)

SubmitDeclaredJob == Submit(TRUE, MaxStreamSubmits)

SubmitDeclaredJobs == Submit(TRUE, MaxQueueSubmits)

\* Payloads of POST /jobs: the {prompt, options} form (an empty prompt is
\* none), and full UIRs, among them two that parse_uir rejects: one with an
\* enabled module that intent.targets does not list, one with no target
Payload(form, prompt, id, uir) ==
    [ form |-> form, prompt |-> prompt, id |-> id, uir |-> uir ]

InvalidUIRs ==
    { [ id |-> "client-a", uir |-> UIR({"scene"}, {"scene", "music"}, NoRouting) ],
      [ id |-> "", uir |-> UIR({}, {}, NoRouting) ] }

Payloads ==
    { Payload("prompt", text, "", NoUIR) : text \in { "", "a dance" } }
    \cup { Payload("uir", "", full.id, full.uir) : full \in FullUIRs \cup InvalidUIRs }

\* plan_uir(payload): a full UIR is returned as it is; otherwise a UIR with
\* job.id "pending" is built from the prompt, and ValueError("prompt is
\* required") is raised when there is none
plan_uir(payload) ==
    IF payload.form = "uir"
    THEN [ ok |-> TRUE, id |-> payload.id, uir |-> payload.uir ]
    ELSE IF payload.prompt = ""
    THEN [ ok |-> FALSE, id |-> "", uir |-> NoUIR ]
    ELSE [ ok |-> TRUE, id |-> PendingId, uir |-> PromptUIR({"motion", "preview"}) ]

\* the response of the handler: the job_id, or the status of HTTPException
Response(payload, body) ==
    [ fn |-> "create_job", arg |-> payload, done |-> TRUE, ret |-> << body >> ]

\* POST /jobs with any payload.  ValueError from plan_uir or from
\* JobStore.create_job (parse_uir raises before the job directory is made and
\* before the record is stored) becomes HTTPException(422); create_job has
\* drawn uuid4() by then when the UIR names no job.id.
PostJobs ==
    /\ Serving
    /\ \E payload \in Payloads :
         LET planned == plan_uir(payload)
             draws == planned.ok /\ planned.id = ""
         IN  /\ draws => uuids < Len(UuidHex)
             /\ IF planned.ok /\ parse_uir_ok(planned.uir)
                THEN /\ Len(submitted) < MaxSubmits
                     /\ create_job(planned.id, planned.uir, FALSE)
                     /\ call' = Response(payload, submitted'[Len(submitted')])
                ELSE /\ call' = Response(payload, "422")
                     /\ uuids' = IF draws THEN uuids + 1 ELSE uuids
                     /\ UNCHANGED << jobs, manifest, created, queue, submitted >>
    /\ UNCHANGED << cancels, busVars, worker, thread, pending, semVars, hist >>

\* the number of lines written so far to the record with identity oid
Written(oid) == IF oid \in DOMAIN hist.lines THEN hist.lines[oid] ELSE 0

\* JobStore.append_log(job_id, line) for a known job; the line written is
\* named by its number among the lines written to the record
AppendLog ==
    /\ \E id \in JobIds :
         /\ jobs[id] # NoJob
         /\ Written(jobs[id].oid) < MaxLogWrites
         /\ LET n == Written(jobs[id].oid) + 1
            IN  /\ jobs' = [ jobs EXCEPT ![id] = append_log(jobs[id], n) ]
                /\ hist' = [ hist EXCEPT
                               !.lines = [ oid \in DOMAIN @ \cup { jobs[id].oid } |->
                                             IF oid = jobs[id].oid THEN n ELSE @[oid] ] ]
    /\ UNCHANGED << clientVars, manifest, queue, busVars, worker, thread, pending,
                    semVars >>

\* the adapter of the worker's job is executing adapter.run
AdapterRunning(id) ==
    worker.pc = "running" /\ worker.id = id /\ thread.state = "running"

\* JobStore.cancel_job(job_id)
Cancel(limit) ==
    /\ Serving
    /\ cancels < limit
    /\ \E id \in JobIds :
         /\ jobs[id] # NoJob
         /\ jobs' = [ jobs EXCEPT ![id] = cancel_job(jobs[id]) ]
         /\ hist' = [ hist EXCEPT
                        !.canceled = @ \cup { jobs[id].oid },
                        !.midCancel = IF AdapterRunning(id)
                                      THEN @ \cup { << jobs[id].oid, worker.idx >> }
                                      ELSE @ ]
    /\ cancels' = cancels + 1
    /\ UNCHANGED << created, uuids, submitted, manifest, queue, busVars, worker,
                    thread, pending, semVars, call >>

CancelJob == Cancel(MaxCancels)

CancelDeclaredJob == Cancel(MaxStreamCancels)

\* EventBus.subscribe(job_id), called by the stream handlers for a known job
Subscribe ==
    /\ Serving
    /\ \E s \in Subs, id \in JobIds :
         /\ subState[s] = "none"
         /\ jobs[id] # NoJob
         /\ subscribers' = IF id \in DOMAIN subscribers
                           THEN [ subscribers EXCEPT ![id] = @ \cup { s } ]
                           ELSE subscribers @@ (id :> { s })
         /\ subState' = [ subState EXCEPT ![s] = "open" ]
         /\ subJob' = [ subJob EXCEPT ![s] = id ]
         /\ subStart' = [ subStart EXCEPT ![s] = pubCount[id] ]
    /\ UNCHANGED << jobs, clientVars, manifest, queue, queues, received, pubCount,
                    worker, thread, pending, semVars, hist >>

\* the keyword arguments update_job is called with: some of stage, progress
\* and status, in any order; "BOGUS" is no JobStatus value
FieldValues ==
    { << "stage", "custom" >>, << "progress", 500 >>, << "status", "RUNNING_MOTION" >>,
      << "status", "DONE" >>, << "status", "BOGUS" >> }

FieldLists ==
    { fields \in UNION { [ 1..n -> FieldValues ] : n \in 1..3 } :
        \A i, j \in DOMAIN fields : i # j => fields[i][1] # fields[j][1] }

\* JobStore.update_job(job_id, **fields), called directly, for a known or an
\* unknown job_id; at most MaxUpdates writes of a status per record
UpdateJob ==
    /\ \E id \in { PendingId, "uuid-1" }, fields \in FieldLists :
         IF jobs[id] = NoJob
         THEN /\ jobs' = jobs
              /\ call' = [ fn |-> "update_job", arg |-> [ id |-> id, fields |-> fields ],
                           done |-> TRUE, ret |-> [ job |-> None, raised |-> FALSE ] ]
         ELSE LET ran == update_job_kwargs(jobs[id], fields)
              IN  /\ jobs[id].clock < MaxUpdates
                  /\ jobs' = [ jobs EXCEPT ![id] = ran.job ]
                  /\ call' = [ fn |-> "update_job", arg |-> [ id |-> id, fields |-> fields ],
                               done |-> TRUE,
                               ret |-> [ job |-> IF ran.raised THEN None
                                                 ELSE Some(ran.job),
                                         raised |-> ran.raised ] ]
    /\ UNCHANGED << created, uuids, submitted, cancels, manifest, queue, busVars,
                    worker, thread, pending, semVars, hist >>

\* the answer of GET /jobs/{job_id}/events: the status of the response
SseAnswer(id, status) ==
    [ fn |-> "job_events", arg |-> id, done |-> TRUE, ret |-> << status >> ]

\* _status_snapshot(job) as the first frame of the stream: a status event
\* built from the record as it is when the generator starts
Snapshot(id) ==
    [ n |-> pubCount[id], event |-> Event("status", jobs[id], [ snapshot |-> TRUE ]) ]

\* GET /jobs/{job_id}/events (server-sent events).  The handler answers 404
\* for an unknown job and reads job.event_stream (line 79), which raises
\* AttributeError for a record that has no such attribute: the request ends
\* with a server error, nothing is subscribed and nothing is sent.  With
\* the attribute true, the generator subscribes and yields the snapshot in
\* one stretch, then sends what it gets from its queue (Receive).
JobEvents ==
    /\ Serving
    /\ \E id \in JobIds :
         IF jobs[id] = NoJob
         THEN call' = SseAnswer(id, "404") /\ UNCHANGED busVars
         ELSE IF jobs[id].event_stream = "missing"
         THEN call' = SseAnswer(id, "500") /\ UNCHANGED busVars
         ELSE IF jobs[id].event_stream # "true"
         THEN call' = SseAnswer(id, "409") /\ UNCHANGED busVars
         ELSE \E s \in Subs :
                /\ subState[s] = "none"
                /\ subscribers' = IF id \in DOMAIN subscribers
                                  THEN [ subscribers EXCEPT ![id] = @ \cup { s } ]
                                  ELSE subscribers @@ (id :> { s })
                /\ subState' = [ subState EXCEPT ![s] = "open" ]
                /\ subJob' = [ subJob EXCEPT ![s] = id ]
                /\ subStart' = [ subStart EXCEPT ![s] = pubCount[id] ]
                /\ received' = [ received EXCEPT ![s] = << Snapshot(id) >> ]
                /\ call' = SseAnswer(id, "200")
                /\ UNCHANGED << queues, pubCount >>
    /\ UNCHANGED << jobs, created, uuids, submitted, cancels, manifest, queue,
                    worker, thread, pending, semVars, hist >>

\* job_ws (api/ws.py) lines 15-23 for a known job: accept, then the snapshot
\* message is built from the record and sent; the send is an await, at
\* which the worker task may run
WsSnapshot ==
    /\ Serving
    /\ \E s \in Subs, id \in JobIds :
         /\ subState[s] = "none"
         /\ jobs[id] # NoJob
         /\ subState' = [ subState EXCEPT ![s] = "snapshot" ]
         /\ subJob' = [ subJob EXCEPT ![s] = id ]
         /\ subStart' = [ subStart EXCEPT ![s] = pubCount[id] ]
         /\ received' = [ received EXCEPT ![s] = << Snapshot(id) >> ]
    /\ UNCHANGED << jobs, clientVars, manifest, queue, subscribers, queues, pubCount,
                    worker, thread, pending, semVars, hist >>

\* job_ws line 24: queue = await EVENT_BUS.subscribe(job_id), after the
\* snapshot has been sent
WsSubscribe ==
    /\ \E s \in Subs :
         /\ subState[s] = "snapshot"
         /\ LET id == subJob[s]
            IN  subscribers' = IF id \in DOMAIN subscribers
                               THEN [ subscribers EXCEPT ![id] = @ \cup { s } ]
                               ELSE subscribers @@ (id :> { s })
         /\ subState' = [ subState EXCEPT ![s] = "open" ]
    /\ UNCHANGED << jobs, clientVars, manifest, queue, queues, subJob, subStart,
                    received, pubCount, worker, thread, pending, semVars, hist >>

\* The client of a WebSocket subscriber goes away.  job_ws (api/ws.py lines
\* 25-36) awaits queue.get() and never websocket.receive(), so the handler
\* does not learn of it: it stays suspended, and its queue stays registered,
\* until an event is put on the queue and the send that follows fails.
Disconnect ==
    /\ \E s \in Subs :
         /\ subState[s] = "open"
         /\ subState' = [ subState EXCEPT ![s] = "gone" ]
    /\ UNCHANGED << jobs, clientVars, manifest, queue, subscribers, queues, subJob,
                    subStart, received, pubCount, worker, thread, pending, semVars,
                    hist >>

\* EventBus.unsubscribe(job_id, queue), in the handlers' finally blocks; the
\* handler ends and its queue goes with it
Unsubscribe ==
    /\ \E s \in Subs :
         /\ subState[s] = "open"
         /\ LET id == subJob[s]
                rest == subscribers[id] \ { s }
            IN  subscribers' = IF rest = {}
                               THEN [ k \in DOMAIN subscribers \ { id } |-> subscribers[k] ]
                               ELSE [ subscribers EXCEPT ![id] = rest ]
         /\ subState' = [ subState EXCEPT ![s] = "closed" ]
         /\ subJob' = [ subJob EXCEPT ![s] = "" ]
         /\ subStart' = [ subStart EXCEPT ![s] = 0 ]
         /\ queues' = [ queues EXCEPT ![s] = << >> ]
         /\ received' = [ received EXCEPT ![s] = << >> ]
    /\ UNCHANGED << jobs, clientVars, manifest, queue, pubCount, worker, thread,
                    pending, semVars, hist >>

\* event = await queue.get() in a stream handler
Receive ==
    /\ \E s \in Subs :
         /\ subState[s] = "open"
         /\ queues[s] # << >>
         /\ received' = [ received EXCEPT ![s] = Append(@, Head(queues[s])) ]
         /\ queues' = [ queues EXCEPT ![s] = Tail(@) ]
    /\ UNCHANGED << jobs, clientVars, manifest, queue, subscribers, subState, subJob,
                    subStart, pubCount, worker, thread, pending, semVars, hist >>

-----------------------------------------------------------------------------
(* scheduler/worker.py: the worker task.  An action is one stretch of       *)
(* _run_job; worker.pc names the place the task is at between two actions.  *)

\* the store and the bus after the reporter calls of eff for job id
Commit(id, eff) ==
    /\ jobs' = [ jobs EXCEPT ![id] = eff.job ]
    /\ publish(id, eff.events)

\* one stretch of _run_job inside its try block: the reporter calls of eff,
\* then the manifest write man (NoManifest: none) and the task moving to w;
\* a raising reporter call leads to the except clause of line 226 instead
InTry(id, eff, man, w) ==
    /\ Commit(id, eff)
    /\ manifest' = IF eff.raised \/ man = NoManifest
                   THEN manifest ELSE [ manifest EXCEPT ![id] = man ]
    /\ worker' = IF eff.raised THEN [ worker EXCEPT !.pc = "except" ] ELSE w

\* the same outside the try block: a raising reporter call leaves _run_job
\* and ends worker_loop (its finally clause calls task_done on the way)
OutOfTry(id, eff, man, w) ==
    /\ Commit(id, eff)
    /\ manifest' = IF eff.raised \/ man = NoManifest
                   THEN manifest ELSE [ manifest EXCEPT ![id] = man ]
    /\ worker' = IF eff.raised THEN [ Idle EXCEPT !.pc = "dead" ] ELSE w

\* _fail_job(store, reporter, job_id, _current_progress(...), message, error)
\* after the reporter calls of eff: the reporter calls, and the manifest
FailStatus(eff, error) == ThenStatus(eff, "FAILED", eff.job.progress, error)
FailManifest(eff, error) == Manifest("FAILED", _stored_artifacts(eff.job), << error >>)

\* the for loop of line 95 moving on from the stage at worker.idx
NextStage ==
    IF worker.idx = Len(_PIPELINE)
    THEN [ worker EXCEPT !.pc = "finish" ]
    ELSE [ worker EXCEPT !.pc = "check", !.idx = @ + 1 ]

Unhappy(oid) == [ hist EXCEPT !.unhappy = @ \cup { oid } ]

\* worker_loop line 73: job_id = await JOB_QUEUE.get()
WorkerDequeue ==
    /\ worker.pc = "idle"
    /\ queue # << >>
    /\ worker' = [ Idle EXCEPT !.pc = "start", !.id = Head(queue) ]
    /\ queue' = Tail(queue)
    /\ hist' = [ hist EXCEPT !.taken = Append(@, Head(queue)) ]
    /\ UNCHANGED << jobs, clientVars, manifest, busVars, thread, pending, semVars >>

\* _run_job lines 81-93
RunJobStart ==
    /\ worker.pc = "start"
    /\ LET id == worker.id
           job == jobs[id]
       IN  IF job.status = "CANCELED"
           THEN /\ OutOfTry(id, ReporterStatus(job, "CANCELED", job.progress, NoPayload),
                            NoManifest, Idle)
                /\ hist' = hist
           ELSE /\ worker' = [ worker EXCEPT !.pc = "check", !.oid = job.oid,
                                             !.uir = job.uir, !.idx = 1 ]
                /\ hist' = [ hist EXCEPT !.dequeued = @ \cup { job.oid } ]
                /\ UNCHANGED << jobs, manifest, queues, pubCount >>
    /\ UNCHANGED << clientVars, queue, subscribers, subState, subJob, subStart,
                    received, thread, pending, semVars >>

\* _run_job lines 96-98: the cancellation check at the top of the loop,
\* with _mark_canceled
StageCheck ==
    /\ worker.pc = "check"
    /\ LET id == worker.id
           job == jobs[id]
       IN  IF _is_canceled(job)
           THEN InTry(id, ReporterStatus(job, "CANCELED", job.progress, NoPayload),
                      NoManifest, Idle)
           ELSE /\ worker' = [ worker EXCEPT !.pc = "begin" ]
                /\ UNCHANGED << jobs, manifest, queues, pubCount >>
    /\ UNCHANGED << clientVars, queue, subscribers, subState, subJob, subStart,
                    received, thread, pending, semVars, hist >>

\* _run_job lines 130-163: get_adapter raises KeyError for a provider that is
\* not registered; an adapter of another modality is refused
LookupFails(provider_id, modality) ==
    \/ provider_id \notin DOMAIN _REGISTRY
    \/ _REGISTRY[provider_id].modality # modality

\* Mutation of LookupError: the failure is reported as retryable
LookupErrorRetryable(provider_id, modality) ==
    IF provider_id \notin DOMAIN _REGISTRY
    THEN build_error("E_DEPENDENCY_MISSING", "adapter not registered",
                     [ provider_id |-> provider_id, modality |-> modality ], TRUE)
    ELSE build_error("E_UNSUPPORTED", "adapter modality mismatch",
                     [ provider_id |-> provider_id, expected |-> modality ], TRUE)

LookupError(provider_id, modality) ==
    IF provider_id \notin DOMAIN _REGISTRY
    THEN build_error("E_DEPENDENCY_MISSING", "adapter not registered",
                     [ provider_id |-> provider_id, modality |-> modality ], FALSE)
    ELSE build_error("E_UNSUPPORTED", "adapter modality mismatch",
                     [ provider_id |-> provider_id, expected |-> modality ], FALSE)

\* _run_job lines 166-172, 192-198 and 226-232: the error built for an
\* exception
ValidationError(exc) ==
    build_error("E_VALIDATION_INPUT", "validation failed", [ error |-> exc ], FALSE)

\* Mutation of RunError: the exception string is left out
RunErrorBare(exc, provider_id) ==
    build_error("E_MODEL_RUNTIME", "adapter execution failed",
                [ provider_id |-> provider_id ], TRUE)

RunError(exc, provider_id) ==
    build_error("E_MODEL_RUNTIME", "adapter execution failed",
                [ error |-> exc, provider_id |-> provider_id ], TRUE)

WorkerError(exc) ==
    build_error("E_MODEL_RUNTIME", "worker failed", [ error |-> exc ], TRUE)

\* _run_job lines 99-163: the stage's first status report, the stages without
\* an adapter run, provider resolution and adapter lookup
StageBegin ==
    /\ worker.pc = "begin"
    /\ LET id == worker.id
           band == _PIPELINE[worker.idx]
           stage == band.stage
           e1 == ReporterStatus(jobs[id], stage, band.start, NoPayload)
           modality == IF stage \in DOMAIN _STAGE_MODALITY
                       THEN _STAGE_MODALITY[stage] ELSE ""
           skipped == modality = "" \/ ~_modality_requested(worker.uir, modality)
           e2 == ThenStatus(e1, stage, band.end, NoPayload)
           provider_id == _resolve_provider_id(worker.uir, modality)
           failed == LookupFails(provider_id, modality)
           error == LookupError(provider_id, modality)
           e3 == FailStatus(e1, error)
       IN  IF skipped
           THEN /\ InTry(id, e2, Manifest(stage, e2.job.artifacts, << >>), NextStage)
                /\ hist' = hist
           ELSE IF failed
           THEN /\ InTry(id, e3, FailManifest(e3, error), Idle)
                /\ hist' = IF e1.raised THEN hist ELSE Unhappy(worker.oid)
           ELSE /\ InTry(id, e1, NoManifest, [ worker EXCEPT !.pc = "validate" ])
                /\ hist' = hist
    /\ UNCHANGED << clientVars, queue, subscribers, subState, subJob, subStart,
                    received, thread, pending, semVars >>

\* _run_job lines 226-240: the except clause of the try block
WorkerExcept ==
    /\ worker.pc = "except"
    /\ LET id == worker.id
           error == WorkerError("AttributeError")
           e == FailStatus(Start(jobs[id]), error)
       IN  OutOfTry(id, e, FailManifest(e, error), Idle)
    /\ UNCHANGED << clientVars, queue, subscribers, subState, subJob, subStart,
                    received, thread, pending, semVars, hist >>

\* the stage the worker task is at, and its modality and provider
Band == _PIPELINE[worker.idx]
StageModality == _STAGE_MODALITY[Band.stage]
ProviderId == _resolve_provider_id(worker.uir, StageModality)

\* _provider_semaphore: the free permits of the provider's semaphore, which
\* is created with _max_concurrency(adapter) permits at its first use
Permits(key) ==
    IF key \in DOMAIN providerSems
    THEN providerSems[key]
    ELSE _max_concurrency(_REGISTRY[key])

SetPermits(key, value) ==
    IF key \in DOMAIN providerSems
    THEN [ providerSems EXCEPT ![key] = value ]
    ELSE providerSems @@ (key :> value)

\* Mutation of Release: the permit is not given back
NoRelease(key) == SetPermits(key, Permits(key))

\* semaphore.release()
Release(key) == SetPermits(key, Permits(key) + 1)

\* _run_job lines 164-181: adapter.validate returns (exc = "") or raises
ValidateReturn ==
    /\ worker.pc = "validate"
    /\ \E exc \in Exceptions \cup { "" } :
         LET id == worker.id
             error == ValidationError(exc)
             e == FailStatus(Start(jobs[id]), error)
         IN  IF exc = ""
             THEN /\ worker' = [ worker EXCEPT !.pc = "acquire" ]
                  /\ UNCHANGED << jobs, manifest, queues, pubCount, hist >>
             ELSE /\ InTry(id, e, FailManifest(e, error), Idle)
                  /\ hist' = [ Unhappy(worker.oid) EXCEPT
                                 !.invalid = @ \cup { << worker.oid, worker.idx, exc >> } ]
    /\ UNCHANGED << clientVars, queue, subscribers, subState, subJob, subStart,
                    received, thread, pending, semVars >>

\* _run_adapter lines 252-257: await semaphore.acquire(), then adapter.run is
\* handed to a thread
AcquireProvider ==
    /\ worker.pc = "acquire"
    /\ Permits(ProviderId) > 0
    /\ providerSems' = SetPermits(ProviderId, Permits(ProviderId) - 1)
    /\ worker' = [ worker EXCEPT !.pc = "running" ]
    /\ thread' = [ NoThread EXCEPT !.state = "running" ]
    /\ UNCHANGED << jobs, clientVars, manifest, queue, busVars, pending,
                    gpuSemaphore, hist >>

\* _AdapterReporter.stage called by adapter.run in its thread: the coroutine
\* reporter.status(stage, overall, ...) is handed to the loop
Report(limit, values) ==
    /\ thread.state = "running"
    /\ thread.reports < limit
    /\ \E progress \in values :
         pending' = Append(pending, [ id |-> worker.id, stage |-> Band.stage,
                                      overall |-> Overall(Band, progress) ])
    /\ thread' = [ thread EXCEPT !.reports = @ + 1 ]
    /\ UNCHANGED << jobs, clientVars, manifest, queue, busVars, worker, semVars, hist >>

\* the reports of the adapters of adapters/*.py
AdapterReport == Report(MaxReports, AdapterProgress)

\* the reports of any adapter
AdapterReportAny == Report(MaxAnyReports, AnyProgress)

\* the reports of an adapter that passes numbers outside the ranges
AdapterReportWild == Report(MaxReports, WildProgress)

\* JobStore.update_job(job_id, progress=value) called for a known job with
\* any number
UpdateProgress ==
    /\ \E id \in JobIds, value \in WildProgress :
         /\ jobs[id] # NoJob
         /\ jobs' = [ jobs EXCEPT ![id] = update_job(jobs[id], [ progress |-> value ]) ]
         /\ call' = [ fn |-> "update_job", arg |-> [ id |-> id, progress |-> value ],
                      done |-> TRUE, ret |-> << >> ]
    /\ UNCHANGED << created, uuids, submitted, cancels, manifest, queue, busVars,
                    worker, thread, pending, semVars, hist >>

\* adapter.run returns a result with ok=true or ok=false, or raises; any
\* tells whether the adapter is one of adapters/*.py or any adapter
Finish(any) ==
    /\ thread.state = "running"
    /\ \/ \E result \in IF any THEN AnyResults(StageModality, worker.idx)
                       ELSE AdapterResults(StageModality, worker.idx) :
              thread' = [ thread EXCEPT !.state = "done", !.outcome = "return",
                                        !.result = result ]
       \/ \E exc \in Exceptions :
              thread' = [ thread EXCEPT !.state = "done", !.outcome = "raise",
                                        !.exc = exc ]
    /\ UNCHANGED << jobs, clientVars, manifest, queue, busVars, worker, pending,
                    semVars, hist >>

AdapterFinish == Finish(FALSE)

AdapterFinishAny == Finish(TRUE)

\* the adapters of adapters/*.py other than the preview builder
AdapterFinishMedia ==
    thread.state = "running" /\ StageModality # "preview" /\ AdapterFinish

\* PreviewConfigBuilder.run returns: it read the job's artifacts from
\* JOB_STORE under uir.job.id, which is the id of the job being run
PreviewFinish ==
    /\ thread.state = "running"
    /\ StageModality = "preview"
    /\ \E valid \in BOOLEAN :
         LET ran == PreviewRun(_load_artifacts(jobs[worker.id]), valid)
             result == IF ran.ok
                       THEN Result(TRUE, << Artifact("preview", worker.idx) >>, FALSE, << >>)
                       ELSE Result(FALSE, << >>, TRUE, ran.error)
         IN  /\ thread' = [ thread EXCEPT !.state = "done", !.outcome = "return",
                                          !.result = result ]
             /\ hist' = [ hist EXCEPT !.preview = @ @@ (worker.oid :> ran) ]
    /\ UNCHANGED << jobs, clientVars, manifest, queue, busVars, worker, pending,
                    semVars >>

\* POST /jobs with a {prompt, options} payload that asks for a preview and
\* any of the media
PreviewUIRs ==
    { PromptUIR(targets \cup { "preview" }) :
        targets \in SUBSET { "motion", "scene", "music", "character" } }

SubmitPreviewJob ==
    /\ Serving
    /\ Len(submitted) < MaxStreamSubmits
    /\ \E uir \in PreviewUIRs : create_job(PendingId, uir, TRUE)
    /\ UNCHANGED << cancels, busVars, worker, thread, pending, semVars, hist, call >>

\* the loop runs the oldest coroutine handed over by _AdapterReporter._schedule;
\* what it raises stays in its future
RunPending ==
    /\ pending # << >>
    /\ LET c == Head(pending)
       IN  Commit(c.id, ReporterStatus(jobs[c.id], c.stage, c.overall, StagePayload))
    /\ pending' = Tail(pending)
    /\ UNCHANGED << clientVars, manifest, queue, subscribers, subState, subJob,
                    subStart, received, worker, thread, semVars, hist >>

\* _run_adapter lines 257-259 and _run_job lines 192-223: the worker task
\* resumes with the result of the thread.  The coroutines the thread handed
\* to the loop were queued ahead of the wake-up and have run.
WorkerResume ==
    /\ worker.pc = "running"
    /\ thread.state = "done"
    /\ pending = << >>
    /\ providerSems' = Release(ProviderId)
    /\ thread' = NoThread
    /\ LET id == worker.id
           job == jobs[id]
           result == thread.result
           error == IF thread.outcome = "raise" THEN RunError(thread.exc, ProviderId)
                    ELSE _result_error(result, ProviderId)
           e1 == FailStatus(Start(job), error)
           artifacts == _result_artifacts(result)
           stored == _store_artifacts(job, artifacts)
           e2 == _emit_asset_events(Start(stored), artifacts)
           e3 == ThenStatus(e2, Band.stage, Band.end, NoPayload)
       IN  IF thread.outcome = "return" /\ _result_ok(result)
           THEN /\ InTry(id, e3, Manifest(Band.stage, e3.job.artifacts, << >>), NextStage)
                /\ hist' = hist
           ELSE /\ InTry(id, e1, FailManifest(e1, error), Idle)
                /\ hist' = Unhappy(worker.oid)
    /\ UNCHANGED << clientVars, queue, subscribers, subState, subJob, subStart,
                    received, pending, gpuSemaphore >>

\* _run_job lines 224-225
JobFinish ==
    /\ worker.pc = "finish"
    /\ LET id == worker.id
           e == ReporterStatus(jobs[id], "DONE", 1000, NoPayload)
       IN  InTry(id, e, Manifest("DONE", e.job.artifacts, << >>), Idle)
    /\ UNCHANGED << clientVars, queue, subscribers, subState, subJob, subStart,
                    received, thread, pending, semVars, hist >>

\* main.py _lifespan lines 22-26: worker_task.cancel() at shutdown.  The
\* CancelledError is raised at the await the task is suspended at and is not
\* an Exception: only the finally clauses of lines 76 and 258 run.
CancelWorkerTask ==
    /\ worker.pc \in { "idle", "validate", "running" }
    /\ providerSems' = IF worker.pc = "running" THEN Release(ProviderId)
                       ELSE providerSems
    /\ worker' = [ worker EXCEPT !.pc = "cancelled" ]
    /\ UNCHANGED << jobs, clientVars, manifest, queue, busVars, thread, pending,
                    gpuSemaphore, hist >>

-----------------------------------------------------------------------------
(* Specifications *)

\* the steps of the worker task with the Job record of scheduler/models.py:
\* every reporter call raises, so no stage gets past its first report
WorkerStep ==
    \/ WorkerDequeue
    \/ RunJobStart
    \/ StageCheck
    \/ StageBegin
    \/ WorkerExcept

Next ==
    \/ SubmitJob
    \/ CancelJob
    \/ Subscribe
    \/ Unsubscribe
    \/ WorkerStep
    \/ CancelWorkerTask

Spec == Init /\ [][Next]_vars

\* the worker task is scheduled whenever it can take a step
LiveSpec == Spec /\ WF_vars(WorkerStep)

\* the steps of the worker task, of the adapter's thread and of the loop when
\* the job records carry event_stream
PipelineStep ==
    \/ WorkerDequeue
    \/ RunJobStart
    \/ StageCheck
    \/ StageBegin
    \/ ValidateReturn
    \/ AcquireProvider
    \/ AdapterReport
    \/ AdapterFinish
    \/ RunPending
    \/ WorkerResume
    \/ JobFinish

NextStream ==
    \/ SubmitDeclaredJob
    \/ CancelDeclaredJob
    \/ Subscribe
    \/ Unsubscribe
    \/ Receive
    \/ PipelineStep
    \/ CancelWorkerTask

SpecStream == Init /\ [][NextStream]_vars

\* one job, its subscriber, and an adapter that reports progress values in
\* any order; nobody cancels and the server stays up
NextReports ==
    \/ SubmitDeclaredJob
    \/ Subscribe
    \/ Receive
    \/ WorkerDequeue
    \/ RunJobStart
    \/ StageCheck
    \/ StageBegin
    \/ ValidateReturn
    \/ AcquireProvider
    \/ AdapterReportAny
    \/ AdapterFinish
    \/ RunPending
    \/ WorkerResume
    \/ JobFinish

SpecReports == Init /\ [][NextReports]_vars

\* one job, an adapter that reports numbers outside the ranges, and
\* update_job called with such numbers
NextProgress ==
    \/ SubmitDeclaredJob
    \/ UpdateProgress
    \/ WorkerDequeue
    \/ RunJobStart
    \/ StageCheck
    \/ StageBegin
    \/ ValidateReturn
    \/ AcquireProvider
    \/ AdapterReportWild
    \/ AdapterFinish
    \/ RunPending
    \/ WorkerResume
    \/ JobFinish

SpecProgress == Init /\ [][NextProgress]_vars

\* jobs are submitted and log lines are written to them; the worker task
\* has not taken a job yet
NextLogs == SubmitJob \/ AppendLog

SpecLogs == Init /\ [][NextLogs]_vars

\* the service with the Job record of scheduler/models.py and clients that
\* ask for the event stream of a job
NextSse ==
    \/ SubmitJob
    \/ CancelJob
    \/ JobEvents
    \/ WorkerStep
    \/ CancelWorkerTask

SpecSse == Init /\ [][NextSse]_vars

\* the same with job records that carry event_stream
NextSseStream ==
    \/ SubmitDeclaredJob
    \/ CancelDeclaredJob
    \/ JobEvents
    \/ Unsubscribe
    \/ Receive
    \/ PipelineStep
    \/ CancelWorkerTask

SpecSseStream == Init /\ [][NextSseStream]_vars

\* the service with the Job record of scheduler/models.py and WebSocket
\* clients that subscribe and go away; the worker task is scheduled whenever
\* it can take a step
NextWs ==
    \/ SubmitJob
    \/ CancelJob
    \/ Subscribe
    \/ Disconnect
    \/ WorkerStep
    \/ CancelWorkerTask

LiveWs == Init /\ [][NextWs]_vars /\ WF_vars(WorkerStep)

\* one job that asks for a preview, the adapters of adapters/*.py and the
\* preview builder; nobody subscribes or cancels and the server stays up
NextPreview ==
    \/ SubmitPreviewJob
    \/ WorkerDequeue
    \/ RunJobStart
    \/ StageCheck
    \/ StageBegin
    \/ ValidateReturn
    \/ AcquireProvider
    \/ AdapterFinishMedia
    \/ PreviewFinish
    \/ WorkerResume
    \/ JobFinish

SpecPreview == Init /\ [][NextPreview]_vars

\* one job and a WebSocket client that connects at any time; nobody cancels
\* and the server stays up
NextWsStream ==
    \/ SubmitDeclaredJob
    \/ WsSnapshot
    \/ WsSubscribe
    \/ Receive
    \/ PipelineStep

SpecWs == Init /\ [][NextWsStream]_vars

\* clients that submit jobs, and direct calls of JobStore.update_job
NextUpdate == SubmitJob \/ UpdateJob

SpecUpdate == Init /\ [][NextUpdate]_vars

\* one job and adapters that return any artifact list; the job may be
\* cancelled, nobody subscribes and the server stays up
NextAdapters ==
    \/ SubmitDeclaredJob
    \/ CancelDeclaredJob
    \/ WorkerDequeue
    \/ RunJobStart
    \/ StageCheck
    \/ StageBegin
    \/ ValidateReturn
    \/ AcquireProvider
    \/ AdapterFinishAny
    \/ WorkerResume
    \/ JobFinish

SpecAdapters == Init /\ [][NextAdapters]_vars

\* several jobs and the worker task that processes them one after the other;
\* nobody subscribes or cancels and the server stays up
NextQueue ==
    \/ SubmitDeclaredJobs
    \/ WorkerDequeue
    \/ RunJobStart
    \/ StageCheck
    \/ StageBegin
    \/ ValidateReturn
    \/ AcquireProvider
    \/ AdapterFinish
    \/ WorkerResume
    \/ JobFinish

SpecQueue == Init /\ [][NextQueue]_vars

\* the service with the Job record of scheduler/models.py, and clients that
\* post any payload, accepted or not
NextSubmit ==
    \/ PostJobs
    \/ CancelJob
    \/ Subscribe
    \/ Unsubscribe
    \/ WorkerStep
    \/ CancelWorkerTask

SpecSubmit == Init /\ [][NextSubmit]_vars

\* Functions called on their own, outside the service: the argument is drawn
\* in the initial state and the call returns what the function computes.

\* the UIR dicts plan_stages is called with: any targets, any enabled modules
PlanInputs ==
    { UIR(targets, enabled, NoRouting) :
        targets \in SUBSET TargetStrings, enabled \in SUBSET Modalities }

\* The UIR dicts stable_hash is called with: a valid UIR with job.created_at
\* in one of two spellings of one instant or at another instant, job.client
\* (a free dict, here with or without a created_at key of its own),
\* intent.duration_s absent, as the int 12, or as a float, and intent.style
\* absent, null or given.  A dict is a record; a free dict is a set of
\* << key, value >> pairs.
CreatedAts ==
    { "2025-01-01T00:00:00Z", "2025-01-01T00:00:00+00:00", "2030-12-31T00:00:00+00:00" }

Clients ==
    { None, Some({}), Some({ << "name", "web" >> }),
      Some({ << "name", "web" >>, << "created_at", "2025-01-01" >> }),
      Some({ << "name", "web" >>, << "created_at", "2030-12-31" >> }) }

HashInputs ==
    [ job : [ created_at : CreatedAts, client : Clients ],
      intent : [ duration_s : { "absent", "12", "12.0", "30.5" },
                 style : { "absent", "null", "noir" } ],
      uir : { UIR({"scene"}, {"scene"}, NoRouting) } ]

\* UIR.parse_obj: datetime parses the two spellings of an instant to one
\* value, confloat makes 12 the float 12.0, an absent duration_s gets the
\* default 12, an absent Optional field is None
parse_obj(d) ==
    [ job |-> [ created_at |-> IF d.job.created_at = "2025-01-01T00:00:00Z"
                               THEN "2025-01-01T00:00:00+00:00"
                               ELSE d.job.created_at,
                client |-> d.job.client ],
      intent |-> [ duration_s |-> IF d.intent.duration_s \in { "absent", "12" }
                                  THEN "12.0" ELSE d.intent.duration_s,
                   style |-> IF d.intent.style = "absent" THEN "null"
                             ELSE d.intent.style ],
      uir |-> d.uir ]

\* json.loads(model.json(by_alias=True, exclude_none=True)): the fields that
\* are None are left out
model_json(model) ==
    [ model EXCEPT !.intent.style = IF @ = "null" THEN "absent" ELSE @ ]

\* Mutation of _strip_keys: nothing is dropped
_keep_keys(data, drop_keys) == data

\* _strip_keys(value, drop_keys): the keys are dropped from every dict, at
\* any depth
_strip_keys(data, drop_keys) ==
    LET Strip(dict) == { kv \in dict : kv[1] \notin drop_keys }
        job == IF "created_at" \in drop_keys
               THEN [ client |-> IF data.job.client = None THEN None
                                 ELSE Some(Strip(data.job.client[1])) ]
               ELSE [ data.job EXCEPT
                        !.client = IF @ = None THEN None ELSE Some(Strip(@[1])) ]
    IN  [ job |-> job, intent |-> data.intent, uir |-> data.uir ]

_canonical_dict(model) == _strip_keys(model_json(model), { "created_at" })

\* stable_hash(uir) for a dict: 'sha256:' and the digest of the canonical
\* JSON text (sorted keys), which stands for itself here
stable_hash(d) == [ sha256 |-> _canonical_dict(parse_obj(d)) ]

\* adapters/base.py: paths.  A path is absolute or relative and has parts
\* (the root of an absolute path is left out); the job directory is
\* assets_dir/<job_id> with assets_dir = /data.
JobId == "job1"
JobDir == << "data", JobId >>

Path(absolute, parts) == [ absolute |-> absolute, parts |-> parts ]

\* _match_job_id, for parts that do not differ in case only
_match_job_id(part, job_id) == part = job_id

\* _relative_parts_from_job_id: the parts after the first part that matches
\* the job id, wherever it is; ValueError when no part matches
_relative_parts_from_job_id(parts, job_id) ==
    LET hits == { i \in DOMAIN parts : _match_job_id(parts[i], job_id) }
    IN  IF hits = {} THEN [ ok |-> FALSE, rel |-> << >> ]
        ELSE LET idx == CHOOSE i \in hits : \A j \in hits : i <= j
             IN  [ ok |-> TRUE, rel |-> SubSeq(parts, idx + 1, Len(parts)) ]

\* Mutation of _relative_asset_path: the path must be absolute and start
\* with the parts of the job directory, and no part may be ".."
_relative_to_job_dir(path, job_id) ==
    IF /\ path.absolute
       /\ Len(path.parts) >= Len(JobDir) + 2
       /\ SubSeq(path.parts, 1, Len(JobDir)) = JobDir
       /\ \A i \in DOMAIN path.parts : path.parts[i] # ".."
    THEN [ ok |-> TRUE, rel |-> SubSeq(path.parts, Len(JobDir) + 1, Len(path.parts)) ]
    ELSE [ ok |-> FALSE, rel |-> << >> ]

\* _relative_asset_path(path, job_id): the parts after the job id for an
\* absolute path; the parts, without a leading job id, for a relative one;
\* ValueError when fewer than two parts are left
_relative_asset_path(path, job_id) ==
    LET found == IF path.absolute
                 THEN _relative_parts_from_job_id(path.parts, job_id)
                 ELSE IF path.parts # << >> /\ _match_job_id(path.parts[1], job_id)
                 THEN [ ok |-> TRUE, rel |-> Tail(path.parts) ]
                 ELSE [ ok |-> TRUE, rel |-> path.parts ]
    IN  IF found.ok /\ Len(found.rel) >= 2 THEN found
        ELSE [ ok |-> FALSE, rel |-> << >> ]

\* make_asset_url(job_id, rel): /assets/<job_id>/<rel>, as its segments
make_asset_url(job_id, rel) == << "assets", job_id >> \o rel

\* build_asset_ref(file_path, job_id, role, mime): the AssetRef's uri, or
\* the ValueError of _relative_asset_path
build_asset_ref(path, job_id) ==
    LET found == _relative_asset_path(path, job_id)
    IN  IF found.ok THEN [ ok |-> TRUE, uri |-> make_asset_url(job_id, found.rel) ]
        ELSE [ ok |-> FALSE, uri |-> << >> ]

\* A subdir string is the sequence of its pieces between the "/" characters;
\* an empty piece stands for a leading, trailing or doubled "/".
IsEmptyStr(subdir) == subdir = << >> \/ subdir = << "" >>

\* pathlib: Path(subdir).parts without the root; empty and "." pieces are
\* no parts
PathPartsOf(subdir) == SelectSeq(subdir, LAMBDA piece : piece \notin { "", "." })

\* pathlib: Path(subdir).name, the last part, or "" when there is none
PathName(subdir) ==
    LET parts == PathPartsOf(subdir)
    IN  IF parts = << >> THEN "" ELSE parts[Len(parts)]

\* Mutation of resolve_output_dir: ".." is no subdir either
resolve_output_dir_no_parent(out_dir, subdir) ==
    IF IsEmptyStr(subdir) \/ subdir # << PathName(subdir) >> \/ subdir = << ".." >>
    THEN [ ok |-> FALSE, dir |-> << >> ]
    ELSE [ ok |-> TRUE, dir |-> out_dir \o PathPartsOf(subdir) ]

\* resolve_output_dir(out_dir, subdir): ValueError unless subdir is not
\* empty and equals Path(subdir).name; else out_dir / subdir
resolve_output_dir(out_dir, subdir) ==
    IF IsEmptyStr(subdir) \/ subdir # << PathName(subdir) >>
    THEN [ ok |-> FALSE, dir |-> << >> ]
    ELSE [ ok |-> TRUE, dir |-> out_dir \o PathPartsOf(subdir) ]

\* the subdir strings resolve_output_dir is called with: up to three pieces
Subdirs == UNION { [ 1..n -> { "", "scene", "motion", "..", "." } ] : n \in 0..3 }

\* the paths build_asset_ref is called with: up to four parts
PathParts == { "data", JobId, "scene", "pano.png", ".." }

Paths ==
    { Path(absolute, parts) :
        absolute \in BOOLEAN,
        parts \in UNION { [ 1..n -> PathParts ] : n \in 0..4 } }

\* The artifact dicts write_manifest is called with: a role of the table or
\* another one, with or without a uri, with or without an "output" key
ArtifactDicts ==
    { [ AssetRef(role, 0, TRUE) EXCEPT !.uri = uri, !.output = output ] :
        role \in { "scene_panorama", "motion_bvh", "export_zip", "export_mp4",
                   "thumbnail" },
        uri \in BOOLEAN, output \in { "", "export.zip" } }

InitCalls ==
    /\ InitService
    /\ \/ call \in { Call(fn, uir) : fn \in { "plan_stages", "create_job" },
                                     uir \in PlanInputs }
       \/ call \in { Call("stable_hash", << a, b >>) : a, b \in HashInputs }
       \/ call \in { Call("build_asset_ref", path) : path \in Paths }
       \/ call \in { Call("resolve_output_dir", subdir) : subdir \in Subdirs }
       \/ call \in { Call("write_manifest", arts) :
                     arts \in { << >> } \cup { << a >> : a \in ArtifactDicts }
                             \cup { << a, b >> : a, b \in ArtifactDicts } }

CallPlanStages ==
    /\ call.fn = "plan_stages" /\ ~call.done
    /\ call' = [ call EXCEPT !.done = TRUE, !.ret = plan_stages(call.arg) ]
    /\ UNCHANGED progVars

\* JobStore.create_job(uir) for a UIR without job.id: the id is drawn, then
\* parse_uir either raises UIRValidationError(errors) or the record and the
\* manifest are written
CallCreateJob ==
    /\ call.fn = "create_job" /\ ~call.done
    /\ LET uir == call.arg
           job_id == UuidHex[uuids + 1]
           parsed == parse_uir(uir)
       IN  /\ call' = [ call EXCEPT !.done = TRUE, !.ret = parsed ]
           /\ uuids' = uuids + 1
           /\ IF parsed.ok
              THEN /\ jobs' = [ jobs EXCEPT
                                  ![job_id] = Job(created + 1, uir, plan_stages(uir)) ]
                   /\ manifest' = [ manifest EXCEPT
                                      ![job_id] = Manifest("QUEUED", << >>, << >>) ]
                   /\ created' = created + 1
              ELSE UNCHANGED << jobs, manifest, created >>
    /\ UNCHANGED << submitted, cancels, queue, busVars, worker, thread, pending,
                    semVars, hist >>

\* stable_hash of two dicts, and of the first parsed and serialized again
CallStableHash ==
    /\ call.fn = "stable_hash" /\ ~call.done
    /\ LET a == call.arg[1]
           b == call.arg[2]
       IN  call' = [ call EXCEPT
                       !.done = TRUE,
                       !.ret = << stable_hash(a), stable_hash(b),
                                  stable_hash(model_json(parse_obj(a))) >> ]
    /\ UNCHANGED progVars

\* write_manifest(job_dir, uir, "DONE", artifacts, [])
CallWriteManifest ==
    /\ call.fn = "write_manifest" /\ ~call.done
    /\ call' = [ call EXCEPT !.done = TRUE,
                             !.ret = write_manifest("DONE", call.arg, << >>) ]
    /\ UNCHANGED progVars

\* build_asset_ref(file_path, job_id, role, mime)
CallBuildAssetRef ==
    /\ call.fn = "build_asset_ref" /\ ~call.done
    /\ call' = [ call EXCEPT !.done = TRUE, !.ret = build_asset_ref(call.arg, JobId) ]
    /\ UNCHANGED progVars

\* resolve_output_dir(out_dir, subdir), out_dir the job directory
CallResolveOutputDir ==
    /\ call.fn = "resolve_output_dir" /\ ~call.done
    /\ call' = [ call EXCEPT !.done = TRUE, !.ret = resolve_output_dir(JobDir, call.arg) ]
    /\ UNCHANGED progVars

NextCalls ==
    \/ CallPlanStages
    \/ CallCreateJob
    \/ CallStableHash
    \/ CallWriteManifest
    \/ CallBuildAssetRef
    \/ CallResolveOutputDir

SpecCalls == InitCalls /\ [][NextCalls]_vars

-----------------------------------------------------------------------------
(* Properties *)

Known(id) == jobs[id] # NoJob
Terminal(job) == job.status \in _TERMINAL_STATUSES

\* the record of id is the same Job object before and after the step
SameJob(id) == Known(id) /\ jobs'[id] # NoJob /\ jobs'[id].oid = jobs[id].oid

\* C1: terminal states are sinks.  Once the status of a job is DONE, FAILED
\* or CANCELED, no step of the store, the reporter or the worker changes it
\* to a different value.
C1_TerminalStatesAreSinks ==
    [][ \A id \in JobIds :
          SameJob(id) /\ Terminal(jobs[id]) => jobs'[id].status = jobs[id].status ]_vars

\* C2: cancellation mid-stage.  When cancel_job was called on a job while the
\* adapter of one of its stages was running, no artifact of that stage is
\* stored, the worker goes no further than the cancellation check that
\* follows the stage, the job does not become DONE, and once the worker has
\* left the job its status is CANCELED.
C2_CancelMidStage ==
    \A id \in JobIds : \A c \in hist.midCancel :
        Known(id) /\ jobs[id].oid = c[1] =>
            /\ jobs[id].status # "DONE"
            /\ \A i \in DOMAIN jobs[id].artifacts : jobs[id].artifacts[i].stage # c[2]
            /\ worker.oid = c[1] /\ worker.idx > c[2] => worker.pc = "check"
            /\ worker.oid # c[1] => jobs[id].status = "CANCELED"

\* the job of id has reached one of DONE, FAILED, CANCELED
Ended(id) == Known(id) /\ Terminal(jobs[id])

\* C3: every job that is created and enqueued eventually reaches one of
\* DONE, FAILED, CANCELED while the server is up, whatever its place in the
\* queue, when the worker task is scheduled fairly.
C3_EveryJobTerminates ==
    \A id \in JobIds : Known(id) ~> (Ended(id) \/ ~Serving)

\* the events put on the queue of subscriber s so far, oldest first
Delivered(s) ==
    LET d == received[s] \o queues[s]
    IN  [ i \in 1..Len(d) |-> d[i].event ]

\* _run_job was called for the Job object oid and has returned or raised
WorkerLeft(oid) == oid \in hist.dequeued /\ worker.oid # oid

\* no adapter call made for the Job object failed, and nobody cancelled it
Happy(oid) == oid \notin hist.unhappy /\ oid \notin hist.canceled

\* the planned stages in the order the worker goes through them
Executed(job) ==
    LET Planned(band) == \E k \in DOMAIN job.stages : job.stages[k] = band.stage
        bands == SelectSeq(_PIPELINE, Planned)
    IN  [ k \in 1..Len(bands) |-> bands[k].stage ]

\* ev holds a status event of every stage of stages, the first ones in the
\* order of stages, then a status event with status DONE, then a done event
ObservedInOrder(ev, stages) ==
    LET n == Len(ev)
        At(st) == { i \in 1..n : ev[i].event = "status" /\ ev[i].stage = st }
        First(st) == CHOOSE i \in At(st) : \A j \in At(st) : i <= j
    IN  /\ n >= 2
        /\ ev[n].event = "done"
        /\ ev[n - 1].event = "status" /\ ev[n - 1].status = "DONE"
        /\ \A k \in DOMAIN stages :
             At(stages[k]) # {} /\ \A i \in At(stages[k]) : i < n - 1
        /\ \A k \in DOMAIN stages :
             k > 1 => First(stages[k - 1]) < First(stages[k])

\* C4: happy path.  A job whose adapters all validate and return ok=true ends
\* with status DONE and progress 1.0, and a subscriber attached before its
\* first event has, in order, a status event of each executed stage, then a
\* status event with status DONE, then a done event.
C4_HappyPath ==
    \A id \in JobIds :
        Known(id) /\ WorkerLeft(jobs[id].oid) /\ Happy(jobs[id].oid) =>
            /\ jobs[id].status = "DONE"
            /\ jobs[id].progress = 1000
            /\ \A s \in Subs :
                 subState[s] = "open" /\ subJob[s] = id /\ subStart[s] = 0 =>
                     ObservedInOrder(Delivered(s), Executed(jobs[id]))

\* C5: job_id is unique.  No two submissions get the same job_id, so every
\* submission has a record of its own in the store and create_job never
\* replaces a record.
C5_JobIdUnique ==
    /\ \A i, j \in DOMAIN submitted : i # j => submitted[i] # submitted[j]
    /\ Cardinality({ id \in JobIds : Known(id) }) = Len(submitted)

\* C6: for every job, ended_at is set if and only if the status is one of
\* DONE, FAILED, CANCELED.
C6_EndedAtIffTerminal ==
    \A id \in JobIds :
        Known(id) => (jobs[id].ended_at # None <=> Terminal(jobs[id]))

\* C7: ended_at is set exactly once, by the first status update that makes
\* the job terminal, and no later status update changes it; started_at is set
\* by the first update to a status other than QUEUED and never changes.
C7_TimestampsSetOnce ==
    [][ \A id \in JobIds :
          SameJob(id) =>
            LET j == jobs[id]
                k == jobs'[id]
            IN  /\ j.ended_at # None => k.ended_at = j.ended_at
                /\ j.started_at # None => k.started_at = j.started_at
                /\ j.started_at = None /\ k.clock > j.clock
                       => k.started_at = Some(j.clock + 1)
                /\ j.ended_at = None /\ Terminal(k)
                       => /\ k.ended_at # None
                          /\ j.clock < k.ended_at[1] /\ k.ended_at[1] <= k.clock
                /\ j.ended_at = None /\ ~Terminal(k) => k.ended_at = None ]_vars

\* a job that became terminal and had its status updated again afterwards
C7_Witness ==
    \E id \in JobIds :
        /\ Known(id)
        /\ jobs[id].ended_at # None /\ jobs[id].started_at # None
        /\ jobs[id].started_at[1] < jobs[id].ended_at[1]
        /\ jobs[id].ended_at[1] < jobs[id].clock

\* C8: GPU gating.  While adapter.run executes for a GPU-bound stage the
\* process-wide GPU semaphore is held (no free permit), and it is free when
\* no adapter runs.
C8_GpuGating ==
    /\ thread.state = "running" /\ Band.stage \in _GPU_STAGES => gpuSemaphore = 0
    /\ thread.state # "running" => gpuSemaphore = 1

\* the capacity of a provider's semaphore, the adapter.run calls in flight
\* for the provider, and whether the worker task holds one of its permits
Capacity(key) == _max_concurrency(_REGISTRY[key])
InFlight(key) == IF thread.state = "running" /\ ProviderId = key THEN 1 ELSE 0
Holding(key) == worker.pc = "running" /\ ProviderId = key

StageIndex(stage) ==
    IF stage = "QUEUED" THEN 0
    ELSE IF \E i \in DOMAIN _PIPELINE : _PIPELINE[i].stage = stage
    THEN CHOOSE i \in DOMAIN _PIPELINE : _PIPELINE[i].stage = stage
    ELSE Len(_PIPELINE) + 1

\* the status events among ev, in order
StatusEvents(ev) == SelectSeq(ev, LAMBDA e : e.event = "status")

\* C11: the status events a subscriber gets for its job are monotonic: the
\* stage index never decreases from one status event to the next, and within
\* a stage the progress never decreases, whatever progress values the adapter
\* reports and for stage-start, stage-end and failure events.
C11_StatusMonotonic ==
    \A s \in Subs :
        LET st == StatusEvents(Delivered(s))
        IN  \A i \in DOMAIN st :
              i > 1 =>
                /\ StageIndex(st[i - 1].stage) <= StageIndex(st[i].stage)
                /\ st[i - 1].stage = st[i].stage => st[i - 1].progress <= st[i].progress

\* C12: the worker runs the stages of the job's stage plan, in the order of
\* the plan: whenever the status of a job that is not terminal changes to a
\* status other than DONE, FAILED, CANCELED, the new status is a stage of the
\* plan computed at creation, the first one when the job was QUEUED and
\* otherwise the one that follows the old status in the plan; so no stage
\* outside the plan becomes the status of the job.
C12_StagePlanOrder ==
    [][ \A id \in JobIds :
          /\ SameJob(id)
          /\ jobs'[id].status # jobs[id].status
          /\ ~Terminal(jobs[id]) /\ ~Terminal(jobs'[id])
          => LET stages == jobs[id].stages
             IN  \E k \in DOMAIN stages :
                   /\ stages[k] = jobs'[id].status
                   /\ jobs[id].status = IF k = 1 THEN "QUEUED" ELSE stages[k - 1] ]_vars

\* C13: the worker task is at an adapter call (validate, the provider's
\* semaphore, run) only for a modality whose module is enabled and listed in
\* intent.targets of the job's UIR.
C13_AdapterOnlyIfSelected ==
    worker.pc \in { "validate", "acquire", "running" } =>
        /\ StageModality \in worker.uir.targets
        /\ StageModality \in worker.uir.enabled

\* the stages after PLANNING in the order plans list them, with their modules
PlanOrder ==
    << [ stage |-> "RUNNING_SCENE", module |-> "scene" ],
       [ stage |-> "RUNNING_MOTION", module |-> "motion" ],
       [ stage |-> "RUNNING_MUSIC", module |-> "music" ],
       [ stage |-> "RUNNING_CHARACTER", module |-> "character" ],
       [ stage |-> "COMPOSING_PREVIEW", module |-> "preview" ],
       [ stage |-> "EXPORTING_VIDEO", module |-> "export" ] >>

\* the module is listed in intent.targets, leading and trailing space and
\* case set aside
Listed(uir, module) == \E value \in uir.targets : StripLower(value) = module

WorkerAt(pc) == worker.pc = pc /\ worker' # worker /\ worker'.pc # "cancelled"

\* the step fails the job of the worker task with an error of the given code
\* and retryable flag: the job becomes FAILED and keeps its artifacts, the
\* manifest is written with status FAILED and the error alone, every
\* subscriber of the job gets a status event and then a failed event that
\* carry the error, and the worker task leaves the job for the queue
FailsWith(code, retryable) ==
    LET id == worker.id
        errors == manifest'[id].errors
    IN  /\ jobs'[id].status = "FAILED"
        /\ jobs'[id].artifacts = jobs[id].artifacts
        /\ manifest'[id].status = "FAILED"
        /\ manifest'[id].artifacts = jobs[id].artifacts
        /\ Len(errors) = 1
        /\ errors[1].code = code /\ errors[1].retryable = retryable
        /\ \A s \in Subs :
             subState[s] = "open" /\ subJob[s] = id =>
                 LET q == queues'[s]
                     n == Len(q)
                 IN  /\ n >= Len(queues[s]) + 2
                     /\ q[n - 1].event.event = "status"
                     /\ q[n - 1].event.status = "FAILED"
                     /\ q[n - 1].event.payload = errors[1]
                     /\ q[n].event.event = "failed"
                     /\ q[n].event.payload = errors[1]
        /\ worker' = Idle

\* adapter.run has not been and is not invoked for the stage
NotRun == thread.state = "idle" /\ thread' = thread

\* the stage the worker task is at has an adapter to run
Requested ==
    /\ Band.stage \in DOMAIN _STAGE_MODALITY
    /\ StageModality \in worker.uir.targets

Put(s) == SubSeq(queues'[s], Len(queues[s]) + 1, Len(queues'[s]))

Attached(s, id) == subState[s] = "open" /\ subJob[s] = id

\* the last two events of ev are a status event with status FAILED that
\* carries an error, and a failed event
EndsWithFailure(ev) ==
    LET n == Len(ev)
    IN  /\ n >= 2
        /\ ev[n - 1].event = "status" /\ ev[n - 1].status = "FAILED"
        /\ "code" \in DOMAIN ev[n - 1].payload
        /\ ev[n].event = "failed"

\* no status event comes after a failed event in ev
NoStatusAfterFailed(ev) ==
    \A i, j \in DOMAIN ev :
        i < j /\ ev[i].event = "failed" => ev[j].event # "status"

\* C18: when a job fails, every subscriber attached to it gets a status event
\* with status FAILED and the error as payload, then a failed event; when the
\* manifest is written with status FAILED they have been published; and no
\* status event of the job follows the failed event.
C18_FailureEvents ==
    /\ [][ \A id \in JobIds : \A s \in Subs :
              /\ SameJob(id) /\ Attached(s, id)
              /\ jobs[id].status # "FAILED" /\ jobs'[id].status = "FAILED"
              => EndsWithFailure([ i \in DOMAIN Put(s) |-> Put(s)[i].event ]) ]_vars
    /\ [][ \A id \in JobIds : \A s \in Subs :
              /\ Attached(s, id)
              /\ manifest'[id] # manifest[id] /\ manifest'[id].status = "FAILED"
              => \E i \in DOMAIN queues'[s] : queues'[s][i].event.event = "failed" ]_vars
    /\ [](\A s \in Subs : NoStatusAfterFailed(Delivered(s)))

\* the error that was published for the job subscriber s follows: the payload
\* of its failed event
PublishedErrors(s) ==
    LET failed == SelectSeq(Delivered(s), LAMBDA e : e.event = "failed")
    IN  [ i \in DOMAIN failed |-> failed[i].payload ]

\* C19: once the worker has finished processing a job whose status is DONE
\* or FAILED, the manifest has that status; for FAILED its errors are the one
\* error that was published, for DONE it has no errors.
C19_TerminalManifest ==
    \A id \in JobIds :
        Known(id) /\ WorkerLeft(jobs[id].oid) /\ jobs[id].status \in { "DONE", "FAILED" } =>
            /\ manifest[id].status = jobs[id].status
            /\ jobs[id].status = "DONE" => manifest[id].errors = << >>
            /\ jobs[id].status = "FAILED" =>
                  /\ Len(manifest[id].errors) = 1
                  /\ \A s \in Subs :
                       Attached(s, id) /\ subStart[s] = 0 =>
                           PublishedErrors(s) = manifest[id].errors

\* the worker task takes the step in which it finds its job CANCELED: at
\* line 85 after the dequeue, or at line 96 between two stages
ObservesCanceled ==
    \/ WorkerAt("start") /\ jobs[worker.id].status = "CANCELED"
    \/ WorkerAt("check") /\ _is_canceled(jobs[worker.id])

\* C20: when the worker finds a job CANCELED, at the dequeue or between two
\* stages, it publishes exactly one status event, with status CANCELED, runs
\* no further adapter for the job, and writes the manifest with status
\* CANCELED and no errors.
C20_CanceledObserved ==
    [][ ObservesCanceled =>
          LET id == worker.id
          IN  /\ \A s \in Subs :
                   Attached(s, id) =>
                       /\ Len(Put(s)) = 1
                       /\ Put(s)[1].event.event = "status"
                       /\ Put(s)[1].event.status = "CANCELED"
              /\ worker' = Idle
              /\ jobs'[id].status = "CANCELED"
              /\ manifest'[id].status = "CANCELED"
              /\ manifest'[id].errors = << >> ]_vars

\* the sequence a is a prefix of the sequence b
IsPrefix(a, b) == Len(a) <= Len(b) /\ SubSeq(b, 1, Len(a)) = a

\* C21: the artifacts list of a job's assets is append-only: every step of
\* the worker and the reporter leaves the previous list as a prefix of the
\* new one, so the artifacts of the stages completed before a failure or a
\* cancellation stay in the job's assets; and the artifacts the manifest was
\* written with are the job's.
C21_ArtifactsAppendOnly ==
    /\ [][ \A id \in JobIds :
              SameJob(id) => IsPrefix(jobs[id].artifacts, jobs'[id].artifacts) ]_vars
    /\ [](\A id \in JobIds :
             Known(id) /\ WorkerLeft(jobs[id].oid) =>
                 manifest[id].artifacts = jobs[id].artifacts)

\* C22: every artifact that the outputs of a manifest refer to has its file
\* in the job directory.
C22_OutputsExist ==
    \A id \in JobIds :
        manifest[id] # NoManifest =>
            \A o \in manifest[id].outputs : o.artifact.file

-----------------------------------------------------------------------------
(* Queue positions *)

\* the jobs that wait in JOB_QUEUE, as a set
Waiting(q) == { q[i] : i \in DOMAIN q }

\* C24: when a job is enqueued and when one leaves the queue, the
\* subscribers of every job that is still queued are sent a status event
\* with status QUEUED (the one that would carry the recomputed
\* queue_position and queue_size).
C24_QueuePositionBroadcast ==
    [][ queue' # queue =>
          \A s \in Subs :
             ( /\ subState[s] = "open"
               /\ subJob[s] \in Waiting(queue')
               /\ jobs'[subJob[s]].status = "QUEUED" )
             => /\ Len(queues'[s]) > Len(queues[s])
                /\ queues'[s][Len(queues'[s])].event.event = "status"
                /\ queues'[s][Len(queues'[s])].event.status = "QUEUED" ]_vars

-----------------------------------------------------------------------------
(* Submissions *)

\* plan_uir and parse_uir accept the payload
Accepted(payload) == plan_uir(payload).ok /\ parse_uir_ok(plan_uir(payload).uir)

\* C25: a submission that fails validation is answered with 422 and adds no
\* record, writes no manifest and enqueues nothing; a submission that
\* succeeds adds exactly one job, with status QUEUED and a manifest, and
\* puts its id into the queue exactly once.
C25_SubmissionAtomic ==
    [][ /\ ( call' # call /\ ~Accepted(call'.arg) ) =>
             /\ call'.ret = << "422" >>
             /\ UNCHANGED << jobs, manifest, queue, created, submitted >>
        /\ submitted' # submitted =>
             LET id == submitted'[Len(submitted')]
             IN  /\ Accepted(call'.arg)
                 /\ call'.ret = << id >>
                 /\ ~Known(id)
                 /\ jobs'[id] # NoJob /\ jobs'[id].status = "QUEUED"
                 /\ manifest'[id] = Manifest("QUEUED", << >>, << >>)
                 /\ \A other \in JobIds \ { id } :
                      jobs'[other] = jobs[other] /\ manifest'[other] = manifest[other]
                 /\ queue' = Append(queue, id)
                 /\ Cardinality({ i \in DOMAIN queue' : queue'[i] = id }) = 1 ]_vars

-----------------------------------------------------------------------------
(* UIR validation *)

\* the modules of a UIR with enabled=true that intent.targets does not list
Offending(uir) == { name \in Modalities : name \in uir.enabled /\ name \notin uir.targets }

\* the locs of a list of validation errors
Locs(errors) == { errors[i].loc : i \in DOMAIN errors }

-----------------------------------------------------------------------------
(* Stable hash *)

\* the two dicts are equal but for the value of job.created_at
DifferOnlyInCreatedAt(a, b) ==
    /\ a.job.created_at # b.job.created_at
    /\ [ a EXCEPT !.job.created_at = b.job.created_at ] = b

\* C27: two valid UIRs that differ only in job.created_at have the same
\* stable hash, and the hash of a UIR is the hash of what it is parsed and
\* serialized into.
C27_StableHash ==
    ( call.fn = "stable_hash" /\ call.done ) =>
        /\ DifferOnlyInCreatedAt(call.arg[1], call.arg[2]) => call.ret[1] = call.ret[2]
        /\ call.ret[1] = call.ret[3]

\* two dicts with created_at at different instants, style null and a
\* duration_s written as the int 12, were hashed to one value, and so was
\* the serialized form, which has no style and the float 12.0
C27_Witness ==
    /\ call.fn = "stable_hash" /\ call.done
    /\ call.arg[1].job.created_at = "2025-01-01T00:00:00Z"
    /\ call.arg[2].job.created_at = "2030-12-31T00:00:00+00:00"
    /\ DifferOnlyInCreatedAt(call.arg[1], call.arg[2])
    /\ call.arg[1].intent = [ duration_s |-> "12", style |-> "null" ]
    /\ model_json(parse_obj(call.arg[1])) # call.arg[1]
    /\ call.ret[1] = call.ret[2]
    /\ call.ret[1] = call.ret[3]

\* the value of the key in a free dict, None when the key is absent
ValueOf(dict, key) ==
    IF \E kv \in dict : kv[1] = key
    THEN Some((CHOOSE kv \in dict : kv[1] = key)[2])
    ELSE None

\* the two dicts are equal but for the value of the created_at key that
\* both have in job.client
DifferOnlyInClientCreatedAt(a, b) ==
    /\ a.job.client # None /\ b.job.client # None
    /\ ValueOf(a.job.client[1], "created_at") # None
    /\ ValueOf(b.job.client[1], "created_at") # None
    /\ ValueOf(a.job.client[1], "created_at") # ValueOf(b.job.client[1], "created_at")
    /\ { kv \in a.job.client[1] : kv[1] # "created_at" }
         = { kv \in b.job.client[1] : kv[1] # "created_at" }
    /\ [ a EXCEPT !.job.client = b.job.client ] = b

\* C35: created_at is dropped only from the top-level job object: two valid
\* UIRs that differ only in the value of a created_at key elsewhere, here in
\* job.client, do not have the same stable hash.
C35_NestedCreatedAtKept ==
    ( call.fn = "stable_hash" /\ call.done ) =>
        ( DifferOnlyInClientCreatedAt(call.arg[1], call.arg[2])
            => call.ret[1] # call.ret[2] )

-----------------------------------------------------------------------------
(* Progress *)

\* C28: whatever number update_job is given as progress, by a direct call,
\* by the reporter or by an adapter's report, the progress of the job is
\* within [0, 1] afterwards.
C28_ProgressClamped ==
    \A id \in JobIds : Known(id) => 0 <= jobs[id].progress /\ jobs[id].progress <= 1000

\* update_job was called with progress=1.5 for the job whose adapter had
\* reported 250 (or another number outside the ranges) before, and the
\* report's status call has run: the job has progress 1.0
C28_Witness ==
    /\ call.fn = "update_job"
    /\ call.arg.progress = 1500
    /\ Known(call.arg.id)
    /\ jobs[call.arg.id].progress = 1000
    /\ worker.id = call.arg.id
    /\ thread.reports = 1
    /\ pending = << >>

-----------------------------------------------------------------------------
(* Log lines *)

\* C29: after any sequence of append_log calls a job holds at most 200
\* lines; they are the lines written last, in the order they were written,
\* and the line written last is the last element.
C29_LogsBounded ==
    \A id \in JobIds :
       Known(id) =>
          LET n == Written(jobs[id].oid)
              logs == jobs[id].logs
          IN  /\ Len(logs) <= 200
              /\ Len(logs) = Min(n, 200)
              /\ \A i \in DOMAIN logs : logs[i] = n - Len(logs) + i

\* 203 lines were written to a job: it holds the lines 4 to 203
C29_Witness ==
    \E id \in JobIds :
       /\ Known(id)
       /\ Written(jobs[id].oid) = 203
       /\ Len(jobs[id].logs) = 200
       /\ jobs[id].logs[1] = 4
       /\ jobs[id].logs[200] = 203

-----------------------------------------------------------------------------
(* Server-sent events *)

\* what the stream handler of subscriber s has sent and will send
Stream(s) == received[s] \o queues[s]

IsSnapshot(frame) == frame.event.payload = [ snapshot |-> TRUE ]

\* C30: a request for the event stream of a known job (not one with
\* event_stream false) opens a subscription whose first frame is the status
\* snapshot of the job; every event published for the job after the
\* subscription was registered follows the snapshot, in publish order.
C30_SnapshotFirst ==
    /\ [][ ( /\ call' # call
             /\ call'.fn = "job_events"
             /\ Known(call'.arg)
             /\ jobs[call'.arg].event_stream # "false" )
           => /\ call'.ret = << "200" >>
              /\ \E s \in Subs :
                   /\ subState[s] = "none" /\ subState'[s] = "open"
                   /\ subJob'[s] = call'.arg
                   /\ received'[s] = << Snapshot(call'.arg) >> ]_vars
    /\ [](\A s \in Subs :
            subState[s] = "open" =>
               /\ received[s] # << >>
               /\ IsSnapshot(received[s][1])
               /\ Len(Stream(s)) = 1 + pubCount[subJob[s]] - subStart[s]
               /\ \A i \in 2..Len(Stream(s)) :
                    /\ ~IsSnapshot(Stream(s)[i])
                    /\ Stream(s)[i].n = subStart[s] + i - 1)

-----------------------------------------------------------------------------
(* Disconnection *)

\* the queue of subscriber s is in the subscriber set of some job
Registered(s) == \E id \in DOMAIN subscribers : s \in subscribers[id]

\* C31: after a subscriber has ended, by disconnect or error, its queue is
\* taken out of the subscriber set and gets no later publish, and the
\* subscriber map holds no key with an empty set.
C31_DisconnectUnsubscribes ==
    /\ [](\A id \in DOMAIN subscribers : subscribers[id] # {})
    /\ [][ \A s \in Subs :
             subState[s] \in { "gone", "closed" } => Len(queues'[s]) <= Len(queues[s]) ]_vars
    /\ \A s \in Subs : (subState[s] = "gone") ~> ~Registered(s)

-----------------------------------------------------------------------------
(* Manifest outputs *)

\* the artifacts of the list that have a uri and a role whose slot is slot
ForSlot(artifacts, slot) ==
    { i \in DOMAIN artifacts :
        /\ artifacts[i].uri
        /\ artifacts[i].role \in DOMAIN _ROLE_OUTPUT_MAP
        /\ _ROLE_OUTPUT_MAP[artifacts[i].role] = slot }

\* C32: the manifest write_manifest returns has exactly the seven keys; each
\* slot of the role table holds the (last) artifact that has a uri and a
\* role of that slot, and a skeleton slot without such an artifact is null.
C32_CanonicalSlots ==
    ( call.fn = "write_manifest" /\ call.done ) =>
        LET artifacts == call.arg
            outputs == call.ret.outputs
        IN  /\ DOMAIN call.ret = { "job_id", "uir_version", "created_at", "status",
                                   "inputs", "outputs", "errors" }
            /\ _DEFAULT_OUTPUTS \subseteq DOMAIN outputs
            /\ \A slot \in DOMAIN outputs :
                 LET with == ForSlot(artifacts, slot)
                 IN  IF with = {}
                     THEN outputs[slot] = None
                     ELSE outputs[slot]
                            = Some(artifacts[CHOOSE i \in with : \A j \in with : j <= i])

-----------------------------------------------------------------------------
(* Asset paths *)

\* the parts of a path with every "name/.." pair taken out; a ".." that has
\* nothing before it stays
RECURSIVE Resolve(_, _)
Resolve(done, rest) ==
    IF rest = << >> THEN done
    ELSE IF Head(rest) = ".." /\ done # << >> /\ done[Len(done)] # ".."
    THEN Resolve(SubSeq(done, 1, Len(done) - 1), Tail(rest))
    ELSE Resolve(Append(done, Head(rest)), Tail(rest))

\* where the path points: an absolute path as it is; a relative one from the
\* job directory, or from its parent when it starts with the job id
Location(path) ==
    IF path.absolute THEN Resolve(<< >>, path.parts)
    ELSE IF path.parts # << >> /\ path.parts[1] = JobId
    THEN Resolve(<< "data" >>, path.parts)
    ELSE Resolve(JobDir, path.parts)

\* the path points below the job directory
UnderJobDir(path) ==
    LET at == Location(path)
    IN  Len(at) > Len(JobDir) /\ SubSeq(at, 1, Len(JobDir)) = JobDir

\* C33: build_asset_ref returns the uri /assets/<job_id>/<rel> with <rel>
\* the file's path relative to the job directory, a subdirectory segment
\* first, and fails for every path that is not under the job directory.
C33_AssetRefUnderJobDir ==
    ( call.fn = "build_asset_ref" /\ call.done ) =>
        LET path == call.arg
            ret == call.ret
        IN  /\ ~UnderJobDir(path) => ~ret.ok
            /\ ret.ok =>
                 /\ Len(ret.uri) >= 4
                 /\ SubSeq(ret.uri, 1, 2) = << "assets", JobId >>
                 /\ JobDir \o Resolve(<< >>, SubSeq(ret.uri, 3, Len(ret.uri)))
                      = Location(path)

\* the directory is a direct child of out_dir
DirectChild(dir, out_dir) ==
    LET at == Resolve(<< >>, dir)
    IN  Len(at) = Len(out_dir) + 1 /\ SubSeq(at, 1, Len(out_dir)) = out_dir

\* C34: resolve_output_dir returns a direct child of out_dir for every
\* subdir it accepts, and raises for a subdir that is empty, nested or leads
\* outside out_dir.
C34_OutputDirInsideOutDir ==
    ( call.fn = "resolve_output_dir" /\ call.done ) =>
        LET subdir == call.arg
            ret == call.ret
        IN  /\ ret.ok => DirectChild(ret.dir, JobDir)
            /\ ( \/ IsEmptyStr(subdir)
                 \/ Len(subdir) > 1
                 \/ ~DirectChild(JobDir \o PathPartsOf(subdir), JobDir) ) => ~ret.ok

-----------------------------------------------------------------------------
(* Preview *)

\* the artifacts of the job with the role
WithRole(job, role) ==
    { i \in DOMAIN job.artifacts : job.artifacts[i].role = role }

\* the stages before the one the worker is at whose modality the job asks for
StagesPassed ==
    { i \in 1..(worker.idx - 1) :
        /\ _PIPELINE[i].stage \in DOMAIN _STAGE_MODALITY
        /\ _modality_requested(worker.uir, _STAGE_MODALITY[_PIPELINE[i].stage]) }

-----------------------------------------------------------------------------
(* Dequeue of a finished job *)

\* the worker task holds the id it took from the queue and has not yet
\* looked at the job
Dequeued(id) == worker.pc = "start" /\ worker.id = id

\* C37: when the id of a job that is DONE or FAILED is dequeued, the worker
\* starts no stage for it and returns to the queue, and the job's record and
\* manifest stay as they are.
C37_FinishedJobNotRerun ==
    [][ \A id \in JobIds :
          ( /\ Dequeued(id)
            /\ Known(id) /\ jobs[id].status \in { "DONE", "FAILED" }
            /\ worker' # worker )
          => ( /\ worker'.pc = "idle"
               /\ jobs'[id] = jobs[id]
               /\ manifest'[id] = manifest[id] ) ]_vars

-----------------------------------------------------------------------------
(* The worker loop *)

\* C38: whatever happens while a job is processed, worker_loop does not end:
\* it marks the queue item done and goes back to the queue.  Only the
\* cancellation of the task at shutdown ends it.
C38_WorkerLoopSurvives == worker.pc # "dead"

-----------------------------------------------------------------------------
(* WebSocket: snapshot and live stream *)

\* C39: a WebSocket client gets the snapshot and then every event published
\* for the job after the snapshot was built, in order and without a gap.
C39_NoEventLostAfterSnapshot ==
    \A s \in Subs :
        subState[s] = "open" =>
            /\ IsSnapshot(Stream(s)[1])
            /\ Len(Stream(s)) = 1 + pubCount[subJob[s]] - subStart[s]
            /\ \A i \in 2..Len(Stream(s)) : Stream(s)[i].n = subStart[s] + i - 1

-----------------------------------------------------------------------------
(* update_job *)

\* a step that is a call of update_job
UpdateJobCalled == call'.fn = "update_job" /\ submitted' = submitted

\* C40: a call of update_job that raises for an invalid status has changed
\* no field of the job, whatever the order of the fields; a call for an
\* unknown job_id returns None and changes no job.
C40_UpdateJobAtomic ==
    [][ UpdateJobCalled =>
          /\ call'.ret.raised => jobs' = jobs
          /\ ~Known(call'.arg.id) =>
               /\ call'.ret = [ job |-> None, raised |-> FALSE ]
               /\ jobs' = jobs ]_vars

====
